---- MODULE Spec2Model ----
(***************************************************************************)
(* Verification model of the resilience layer of productive-cli:           *)
(*   - FileCache, the TTL response cache (src/src/config.ts, lines 41-343) *)
(*   - the resource resolver (resource-resolver.ts)                        *)
(*   - the sliding-window rate limiter with retry (no source in the tree:  *)
(*     modelled from section 4.1 / 5 of the specification)                 *)
(*                                                                         *)
(* JavaScript strings are sequences of one-character strings, so that      *)
(* startsWith, includes, toLowerCase and the regular expressions are       *)
(* computed as the code computes them.                                     *)
(***************************************************************************)
EXTENDS Integers, Sequences, FiniteSets, TLC

(***************************************************************************)
(* Bounds of the model                                                     *)
(***************************************************************************)
\* setImmediate callbacks that may be queued at once
MaxPending == 1
\* FileCache objects constructed in one run
MaxInstances == 2
\* The concurrent tasks that call the rate limiter
NumTasks == 2
\* The last instant of the rate limiter's clock
MaxTime == 6

(***************************************************************************)
(* Program constants.  The two ceilings are scaled down with the model's   *)
(* records (a record weighs 1 or 4 units, a directory holds at most four   *)
(* files): MAX_CACHE_ENTRIES is 1000 and MAX_CACHE_SIZE is 50 * 1024 * 1024 *)
(* in the source.  cleanup compares against them and nothing else does.    *)
(***************************************************************************)
MAX_CACHE_ENTRIES == 3
MAX_CACHE_SIZE == 7

(***************************************************************************)
(* String helpers (String.prototype.startsWith / includes / toLowerCase)   *)
(***************************************************************************)
\* An optional value: None (undefined / null) or Some(x)
None == << >>
Some(x) == <<x>>

Digits == {"0", "1", "2", "3", "4", "5", "6", "7", "8", "9"}

Upper == <<"A","B","C","D","E","F","G","H","I","J","K","L","M",
           "N","O","P","Q","R","S","T","U","V","W","X","Y","Z">>
Lower == <<"a","b","c","d","e","f","g","h","i","j","k","l","m",
           "n","o","p","q","r","s","t","u","v","w","x","y","z">>

LowerOf == [c \in {Upper[i] : i \in 1..26} |->
               Lower[CHOOSE i \in 1..26 : Upper[i] = c]]
UpperOf == [c \in {Lower[i] : i \in 1..26} |->
               Upper[CHOOSE i \in 1..26 : Lower[i] = c]]

LowerChar(c) == IF c \in DOMAIN LowerOf THEN LowerOf[c] ELSE c

UpperChar(c) == IF c \in DOMAIN UpperOf THEN UpperOf[c] ELSE c

toLowerCase(s) == [i \in 1..Len(s) |-> LowerChar(s[i])]
toUpperCase(s) == [i \in 1..Len(s) |-> UpperChar(s[i])]

startsWith(s, p) ==
    /\ Len(p) <= Len(s)
    /\ SubSeq(s, 1, Len(p)) = p

\* A mutation of includes: the pattern must be at the start
includes_AtStart(s, p) == startsWith(s, p)

\* String.prototype.includes
includes(s, p) ==
    \E i \in 0..(Len(s) - Len(p)) : SubSeq(s, i + 1, i + Len(p)) = p

(***************************************************************************)
(* FileCache: the data the calls are made with                             *)
(***************************************************************************)
S_projects == <<"/","p","r","o","j","e","c","t","s">>
S_people == <<"/","p","e","o","p","l","e">>
S_services == <<"/","s","e","r","v","i","c","e","s">>
S_time_entries == <<"/","t","i","m","e","_","e","n","t","r","i","e","s">>
S_tasks == <<"/","t","a","s","k","s">>
S_budgets == <<"/","b","u","d","g","e","t","s">>

\* const DEFAULT_TTLS, in the order Object.entries walks it
DEFAULT_TTLS ==
    << <<S_projects, 3600>>, <<S_people, 3600>>, <<S_services, 3600>>,
       <<S_time_entries, 300>>, <<S_tasks, 900>>, <<S_budgets, 900>> >>

\* Parameter objects as the caller built them: <<name, value>> pairs in
\* insertion order.  P_filter_page and P_page_filter hold the same pairs.
P_page1 == << <<"page", "1">> >>
P_filter_page == << <<"filter", "x">>, <<"page", "1">> >>
P_page_filter == << <<"page", "1">>, <<"filter", "x">> >>

\* Code-unit order of the parameter names, as Array.prototype.sort compares
ParamNames == <<"filter", "page">>
NameRank(n) == CHOOSE i \in 1..Len(ParamNames) : ParamNames[i] = n

\* The (endpoint, params, orgId) triples of the callers.  The first two are
\* one request whose params object was built in two orders; the others
\* differ from it in the endpoint, in the params or in the tenant.
Requests ==
    << <<S_projects, P_filter_page, "org-1">>,
       <<S_projects, P_page_filter, "org-1">>,
       <<S_tasks, P_filter_page, "org-1">>,
       <<S_projects, P_page1, "org-1">>,
       <<S_projects, P_filter_page, "org-2">> >>

\* Callers write with the params in one order and read with them in the other
SetCalls == {1, 3, 4, 5}
GetCalls == {2, 3, 4, 5}

\* Response bodies; a record's size on disk grows with its body
D_small == << >>
D_big == <<1, 2, 3>>

\* What set is called with: <<data, options?.ttl in seconds>>
Payloads == { <<D_small, None>>, <<D_big, Some(1)>> }

\* The calls and payloads of a run on a failing file system
CallsIO == {3, 4}
PayloadsIO == { <<D_small, Some(1)>> }

\* Readings of Date.now(), in milliseconds
Instants == {0, 1000, 1001, 2001}

VARIABLES
    now,            \* Date.now()
    env,            \* the run's environment, fixed at start: whether
                    \* file-system calls may fail, and what callers pass
    cacheInstance,  \* the module-level singleton: NoInstance or [id, enabled]
    created,        \* FileCache objects constructed so far
    dirExists,      \* whether cacheDir exists
    store,          \* cacheDir: key |-> record ("corrupt" if unparseable)
    pendingSweeps,  \* cleanup callbacks queued with setImmediate
    last,           \* the last operation and what its caller observed
    latest,         \* history: per call, the latest set made on an enabled
                    \* cache whose record was not deleted since
    rcache,         \* the resolve cache: key |-> [value, expiresAt]
    filt,           \* the resolveFilterIds call under way
    batch,          \* the handleBatch call under way
    lim,            \* the rate limiter's windows and what it admitted
    tasks           \* the concurrent tasks that call the rate limiter

cacheVars == <<now, env, cacheInstance, created, dirExists, store,
               pendingSweeps, last, latest>>
resolverVars == <<rcache, filt>>
limiterVars == <<lim, tasks>>
handlerVars == <<batch>>
\* What no FileCache operation touches
nonCacheVars == <<resolverVars, limiterVars, handlerVars>>

\* A file whose content JSON.parse rejects
Corrupt == [corrupt |-> TRUE]
\* let cacheInstance: FileCache | null = null
NoInstance == [id |-> 0, enabled |-> FALSE]
\* What get returns: null, or entry.data
Miss == [hit |-> FALSE]
Hit(data) == [hit |-> TRUE, data |-> data]

(***************************************************************************)
(* FileCache.getCacheKey: the parameters re-inserted in sorted name order, *)
(* JSON.stringify of {endpoint, orgId, params}, sha256.  The 16-digit      *)
(* digest is taken to be collision-free: the key is the normalised text.   *)
(***************************************************************************)
RECURSIVE InsertSorted(_, _)
InsertSorted(sorted, pair) ==
    IF sorted = << >> THEN <<pair>>
    ELSE IF NameRank(pair[1]) < NameRank(Head(sorted)[1])
         THEN <<pair>> \o sorted
         ELSE <<Head(sorted)>> \o InsertSorted(Tail(sorted), pair)

RECURSIVE sortedParams(_)
sortedParams(params) ==
    IF params = << >> THEN << >>
    ELSE InsertSorted(sortedParams(SubSeq(params, 1, Len(params) - 1)),
                      params[Len(params)])

\* A key that leaves the tenant out of the hashed text
getCacheKey_NoTenant(endpoint, params, orgId) ==
    <<endpoint, "", sortedParams(params)>>

getCacheKey(endpoint, params, orgId) ==
    <<endpoint, orgId, sortedParams(params)>>


(***************************************************************************)
(* FileCache.getTTL                                                        *)
(***************************************************************************)
RECURSIVE FirstMatch(_, _)
FirstMatch(endpoint, table) ==
    IF table = << >> THEN 300
    ELSE IF startsWith(endpoint, Head(table)[1]) THEN Head(table)[2]
         ELSE FirstMatch(endpoint, Tail(table))

\* A mutation of getTTL: if (customTTL) in place of customTTL !== undefined
getTTL_Truthy(endpoint, customTTL) ==
    IF customTTL # None /\ customTTL[1] # 0 THEN customTTL[1]
    ELSE FirstMatch(endpoint, DEFAULT_TTLS)

getTTL(endpoint, customTTL) ==
    IF customTTL # None THEN customTTL[1]
    ELSE FirstMatch(endpoint, DEFAULT_TTLS)

\* An expiry test that is off by one at age = ttl
IsExpired_AtTtl(entry, t) == (t - entry.timestamp) >= entry.ttl * 1000

\* age = (Date.now() - entry.timestamp) / 1000;  age > entry.ttl
IsExpired(entry, t) == (t - entry.timestamp) > entry.ttl * 1000

\* stat.size: the length of JSON.stringify(entry) grows with the body
FileSize(rec) == IF rec = Corrupt THEN 1 ELSE Len(rec.data) + 1

(***************************************************************************)
(* FileCache state helpers                                                 *)
(***************************************************************************)
EmptyStore == [k \in {} |-> Corrupt]

Without(f, ks) == [k \in DOMAIN f \ ks |-> f[k]]

\* The caller's view: two requests are the same when endpoint and tenant are
\* equal and the params objects hold the same pairs
SameRequest(i, j) ==
    LET a == Requests[i]
        b == Requests[j]
    IN /\ a[1] = b[1]
       /\ a[3] = b[3]
       /\ {a[2][n] : n \in 1..Len(a[2])} = {b[2][n] : n \in 1..Len(b[2])}

\* The first request that is the same as request i
CallId(i) == CHOOSE j \in 1..Len(Requests) :
                 SameRequest(i, j) /\ \A k \in 1..(j - 1) : ~SameRequest(i, k)

CallKey(i) == getCacheKey(Requests[i][1], Requests[i][2], Requests[i][3])

\* Which file-system call of an operation throws in this step
FaultChoices(names) == IF env.faulty THEN {"none"} \cup names ELSE {"none"}

\* A mutation of Enabled: this.enabled is not looked at
Enabled_Always == cacheInstance # NoInstance

Enabled == cacheInstance # NoInstance /\ cacheInstance.enabled

RECURSIVE SumSizes(_, _)
SumSizes(f, ks) ==
    IF ks = {} THEN 0
    ELSE LET k == CHOOSE x \in ks : TRUE
         IN FileSize(f[k]) + SumSizes(f, ks \ {k})

\* The history after some files were deleted: a call whose file went is dropped
Forget(hist, gone) ==
    IF gone = {} THEN hist
    ELSE [id \in { i \in DOMAIN hist :
                      \A c \in 1..Len(Requests) :
                          CallId(c) = i => CallKey(c) \notin gone }
             |-> hist[id]]

(***************************************************************************)
(* new FileCache(enabled) / ensureCacheDir                                 *)
(***************************************************************************)
\* The constructor's effect: "threw" when mkdirSync raised
Construct(enabled, fault) ==
    IF enabled /\ ~dirExists /\ fault = "mkdir"
    THEN [threw |-> TRUE, dir |-> dirExists]
    ELSE [threw |-> FALSE, dir |-> dirExists \/ enabled]

\* getCache(enabled = true)
GetCache(enabled) ==
    /\ \E fault \in FaultChoices({"mkdir"}) :
        IF cacheInstance # NoInstance
        THEN /\ UNCHANGED <<cacheInstance, created, dirExists,
                   nonCacheVars>>
             /\ last' = [op |-> "getCache", threw |-> FALSE, ret |-> cacheInstance]
        ELSE /\ created < MaxInstances
             /\ LET r == Construct(enabled, fault)
                    inst == [id |-> created + 1, enabled |-> enabled]
                IN /\ created' = created + 1
                   /\ dirExists' = r.dir
                   /\ cacheInstance' = IF r.threw THEN NoInstance ELSE inst
                   /\ last' = [op |-> "getCache", threw |-> r.threw,
                               ret |-> IF r.threw THEN NoInstance ELSE inst]
    /\ UNCHANGED <<now, env, store, pendingSweeps, latest,
                   nonCacheVars>>

\* disableCache()
DisableCache ==
    /\ created < MaxInstances
    /\ created' = created + 1
    /\ cacheInstance' = [id |-> created + 1, enabled |-> FALSE]
    /\ last' = [op |-> "disableCache", threw |-> FALSE]
    /\ UNCHANGED <<now, env, dirExists, store, pendingSweeps, latest,
                   nonCacheVars>>

\* resetCache()
ResetCache ==
    /\ cacheInstance # NoInstance
    /\ created < MaxInstances
    /\ cacheInstance' = NoInstance
    /\ last' = [op |-> "resetCache", threw |-> FALSE]
    /\ UNCHANGED <<now, env, created, dirExists, store, pendingSweeps, latest,
                   nonCacheVars>>

(***************************************************************************)
(* FileCache.get                                                           *)
(***************************************************************************)
\* What get finds at the key: the record is read only when the file exists
\* A mutation of Lookup: get does not look at this.enabled
Lookup_IgnoresEnabled(key, fault) ==
    IF key \notin DOMAIN store THEN "absent"
    ELSE IF fault = "read" THEN "ioerror"
    ELSE IF store[key] = Corrupt THEN "corrupt"
    ELSE IF IsExpired(store[key], now) THEN "expired"
    ELSE "valid"

Lookup(key, fault) ==
    IF ~Enabled THEN "disabled"
    ELSE IF key \notin DOMAIN store THEN "absent"
    ELSE IF fault = "read" THEN "ioerror"
    ELSE IF store[key] = Corrupt THEN "corrupt"
    ELSE IF IsExpired(store[key], now) THEN "expired"
    ELSE "valid"

\* A mutation of Get: a hit renews the timestamp of the record
Get_Refreshes(c) ==
    /\ cacheInstance # NoInstance
    /\ \E fault \in FaultChoices({"read", "unlink"}) :
        LET key == CallKey(c)
            found == Lookup(key, fault)
            removed == found = "expired" /\ fault # "unlink"
        IN /\ store' = IF removed THEN Without(store, {key})
                       ELSE IF found = "valid"
                       THEN [store EXCEPT ![key].timestamp = now]
                       ELSE store
           /\ latest' = IF removed THEN Forget(latest, {key}) ELSE latest
           /\ last' = [op |-> "get", threw |-> FALSE, call |-> c,
                       found |-> found,
                       read |-> IF found \in {"corrupt", "expired", "valid"}
                                THEN Some(store[key]) ELSE None,
                       ret |-> IF found = "valid" THEN Hit(store[key].data) ELSE Miss,
                       unlinks |-> IF found = "expired" THEN 1 ELSE 0,
                       again |-> /\ last.op = "get"
                                 /\ last.call = c
                                 /\ last.found = "expired"
                                 /\ last.unlinks = 1]
    /\ UNCHANGED <<now, env, cacheInstance, created, dirExists, pendingSweeps,
                   nonCacheVars>>

Get(c) ==
    /\ cacheInstance # NoInstance
    /\ \E fault \in FaultChoices({"read", "unlink"}) :
        LET key == CallKey(c)
            found == Lookup(key, fault)
            removed == found = "expired" /\ fault # "unlink"
        IN /\ store' = IF removed THEN Without(store, {key}) ELSE store
           /\ latest' = IF removed THEN Forget(latest, {key}) ELSE latest
           /\ last' = [op |-> "get", threw |-> FALSE, call |-> c,
                       found |-> found,
                       read |-> IF found \in {"corrupt", "expired", "valid"}
                                THEN Some(store[key]) ELSE None,
                       ret |-> IF found = "valid" THEN Hit(store[key].data) ELSE Miss,
                       unlinks |-> IF found = "expired" THEN 1 ELSE 0,
                       again |-> /\ last.op = "get"
                                 /\ last.call = c
                                 /\ last.found = "expired"
                                 /\ last.unlinks = 1]
    /\ UNCHANGED <<now, env, cacheInstance, created, dirExists, pendingSweeps,
                   nonCacheVars>>

(***************************************************************************)
(* FileCache.set                                                           *)
(***************************************************************************)
NewEntry(c, data, ttlOpt) ==
    [data |-> data, timestamp |-> now, ttl |-> getTTL(Requests[c][1], ttlOpt),
     endpoint |-> Requests[c][1], params |-> Requests[c][2]]

Set(c, data, ttlOpt) ==
    /\ cacheInstance # NoInstance
    /\ pendingSweeps < MaxPending
    /\ \E fault \in FaultChoices({"write", "truncate"}) :
        LET key == CallKey(c)
            wrote == Enabled /\ fault = "none"
        IN /\ store' = IF wrote THEN (key :> NewEntry(c, data, ttlOpt)) @@ store
                       ELSE IF Enabled /\ fault = "truncate"
                            THEN (key :> Corrupt) @@ store
                            ELSE store
           \* setImmediate(() => this.cleanup()) follows the write
           /\ pendingSweeps' = IF wrote THEN pendingSweeps + 1 ELSE pendingSweeps
           /\ latest' = IF Enabled
                        THEN (CallId(c) :> NewEntry(c, data, ttlOpt)) @@ latest
                        ELSE latest
           /\ last' = [op |-> "set", threw |-> FALSE, call |-> c,
                       wrote |-> wrote, queued |-> IF wrote THEN 1 ELSE 0]
    /\ UNCHANGED <<now, env, cacheInstance, created, dirExists,
                   nonCacheVars>>

(***************************************************************************)
(* FileCache.invalidate / clear                                            *)
(***************************************************************************)
S_projects_word == <<"p","r","o","j","e","c","t","s">>

\* endpointPattern as passed: undefined, '' or a substring
Patterns == {None, Some(S_projects_word)}

\* The files invalidate unlinks among those its loop reaches
\* A mutation of Invalidated: a file that cannot be parsed is skipped
Invalidated_SkipsInvalid(f, reached, pattern) ==
    { k \in reached :
        \/ pattern = None
        \/ pattern[1] = << >>
        \/ (f[k] # Corrupt /\ includes(f[k].endpoint, pattern[1])) }

Invalidated(f, reached, pattern) ==
    { k \in reached :
        \/ pattern = None
        \/ pattern[1] = << >>              \* !endpointPattern
        \/ f[k] = Corrupt                  \* "Invalid file, delete it"
        \/ includes(f[k].endpoint, pattern[1]) }

DoInvalidate(pattern, opName) ==
    /\ cacheInstance # NoInstance
    \* an exception inside the loop ends it: only some files were reached
    /\ \E reached \in (IF env.faulty THEN SUBSET DOMAIN store ELSE {DOMAIN store}) :
        LET gone == IF Enabled THEN Invalidated(store, reached, pattern) ELSE {}
        IN /\ store' = Without(store, gone)
           /\ latest' = Forget(latest, gone)
           /\ last' = [op |-> opName, threw |-> FALSE, pattern |-> pattern,
                       gone |-> gone,
                       reached |-> IF Enabled THEN reached ELSE {}]
    /\ UNCHANGED <<now, env, cacheInstance, created, dirExists, pendingSweeps,
                   nonCacheVars>>

Invalidate(pattern) == DoInvalidate(pattern, "invalidate")

\* clear(): this.invalidate()
Clear == DoInvalidate(None, "clear")

(***************************************************************************)
(* FileCache.stats                                                         *)
(***************************************************************************)
RECURSIVE MinTimestamp(_, _, _)
MinTimestamp(f, ks, least) ==
    IF ks = {} THEN least
    ELSE LET k == CHOOSE x \in ks : TRUE
             t == IF f[k] # Corrupt /\ f[k].timestamp < least
                  THEN f[k].timestamp ELSE least
         IN MinTimestamp(f, ks \ {k}, t)

NoStats == [entries |-> 0, size |-> 0, oldestAge |-> 0]

Stats ==
    /\ cacheInstance # NoInstance
    /\ \E fault \in FaultChoices({"readdir"}) :
        last' = [op |-> "stats", threw |-> FALSE,
                 ret |-> IF ~Enabled \/ ~dirExists \/ fault # "none"
                         THEN NoStats
                         ELSE [entries |-> Cardinality(DOMAIN store),
                               size |-> SumSizes(store, DOMAIN store),
                               \* Math.round((Date.now() - oldest) / 1000)
                               oldestAge |->
                                 (now - MinTimestamp(store, DOMAIN store, now)
                                  + 500) \div 1000]]
    /\ UNCHANGED <<now, env, cacheInstance, created, dirExists, store,
                   pendingSweeps, latest,
                   nonCacheVars>>

(***************************************************************************)
(* FileCache.cleanup, run from the setImmediate queue                      *)
(***************************************************************************)
\* fileInfos.sort((a, b) => a.timestamp - b.timestamp).  The sort is stable
\* and fileInfos is in readdirSync's order, which is any order: the results
\* are the orders of the files by ascending timestamp, equal timestamps in
\* any order.
\* A loop that forgot the sort: fileInfos stays in readdirSync's order
RECURSIVE SortedByTimestamp_Unsorted(_, _)
SortedByTimestamp_Unsorted(f, files) ==
    IF files = {} THEN { << >> }
    ELSE UNION { { <<k>> \o rest : rest \in SortedByTimestamp_Unsorted(f, files \ {k}) }
                 : k \in files }

RECURSIVE SortedByTimestamp(_, _)
SortedByTimestamp(f, files) ==
    IF files = {} THEN { << >> }
    ELSE LET oldest == { k \in files :
                           \A o \in files : f[k].timestamp <= f[o].timestamp }
         IN UNION { { <<k>> \o rest : rest \in SortedByTimestamp(f, files \ {k}) }
                    : k \in oldest }

\* while ((totalSize > MAX_CACHE_SIZE || fileInfos.length > MAX_CACHE_ENTRIES)
\*        && fileInfos.length > 0) { shift; unlink; totalSize -= size }
\* The files left in fileInfos; "stuck" are files whose unlinkSync throws.
\* A loop condition that checks the byte ceiling only
OverLimit_SizeOnly(totalSize, count) == totalSize > MAX_CACHE_SIZE

OverLimit(totalSize, count) ==
    totalSize > MAX_CACHE_SIZE \/ count > MAX_CACHE_ENTRIES

RECURSIVE EvictOldest(_, _, _, _)
EvictOldest(f, infos, totalSize, stuck) ==
    IF OverLimit(totalSize, Len(infos)) /\ Len(infos) > 0
    THEN LET oldest == Head(infos)
         IN EvictOldest(f, Tail(infos),
                        IF oldest \in stuck THEN totalSize
                        ELSE totalSize - FileSize(f[oldest]),
                        stuck)
    ELSE infos

Range(q) == { q[i] : i \in 1..Len(q) }

\* First loop: the files deleted because expired or unparseable
Stale(f, t) == { k \in DOMAIN f : f[k] = Corrupt \/ IsExpired(f[k], t) }

Cleanup ==
    /\ pendingSweeps > 0
    /\ pendingSweeps' = pendingSweeps - 1
    /\ \E fault \in FaultChoices({"abort", "unlink"}) :
       \E reached \in (IF fault = "abort" THEN SUBSET DOMAIN store ELSE {DOMAIN store}) :
        LET stale == Stale(store, now) \cap reached
            valid == DOMAIN store \ Stale(store, now)
            totalSize == SumSizes(store, valid)
            over == fault # "abort" /\ OverLimit(totalSize, Cardinality(valid))
        IN \E sorted \in (IF over THEN SortedByTimestamp(store, valid) ELSE { << >> }) :
            LET kept == EvictOldest(store, sorted, totalSize,
                                    IF fault = "unlink" THEN valid ELSE {})
                evicted == IF over /\ fault = "none" THEN valid \ Range(kept) ELSE {}
                gone == stale \cup evicted
            IN /\ store' = Without(store, gone)
               /\ latest' = Forget(latest, gone)
               /\ last' = [op |-> "cleanup", threw |-> FALSE,
                           completed |-> fault = "none",
                           reached |-> reached,
                           sizeOver |-> over /\ totalSize > MAX_CACHE_SIZE,
                           countOver |-> over /\ Cardinality(valid) > MAX_CACHE_ENTRIES,
                           stale |-> Cardinality(stale),
                           evicted |-> { store[k] : k \in evicted }]
    /\ UNCHANGED <<now, env, cacheInstance, created, dirExists,
                   nonCacheVars>>

\* Time passes
Tick ==
    /\ \E t \in env.instants : t > now /\ now' = t
    /\ last' = [op |-> "tick", threw |-> FALSE]
    /\ UNCHANGED <<env, cacheInstance, created, dirExists, store,
                   pendingSweeps, latest,
                   nonCacheVars>>

\* The resolver and the rate limiter at rest
OthersIdle ==
    /\ rcache = EmptyStore
    /\ filt = [call |-> 0, next |-> 0, done |-> FALSE, resolved |-> << >>,
               metadata |-> << >>, trace |-> << >>]
    /\ batch = [state |-> "idle"]
    /\ lim = [timestamps |-> << >>, admitted |-> << >>]
    /\ tasks = << >>

\* A process that has not touched the cache yet
CacheInit(e) ==
    /\ now = 0
    /\ env = e
    /\ cacheInstance = NoInstance
    /\ created = 0
    /\ dirExists = FALSE
    /\ store = EmptyStore
    /\ pendingSweeps = 0
    /\ last = [op |-> "init", threw |-> FALSE]
    /\ latest = EmptyStore
    /\ OthersIdle

\* The operations of one FileCache
CacheOps ==
    \/ \E c \in env.gets : Get(c)
    \/ \E c \in env.sets, p \in env.payloads : Set(c, p[1], p[2])
    \/ \E pattern \in Patterns : Invalidate(pattern)
    \/ Clear
    \/ Stats
    \/ Cleanup
    \/ Tick

Lifecycle ==
    \/ \E enabled \in BOOLEAN : GetCache(enabled)
    \/ DisableCache
    \/ ResetCache

vars == <<cacheVars, resolverVars, limiterVars, handlerVars>>

\* An enabled cache on a working file system, after getCache()
Init ==
    /\ now = 0
    /\ env = [faulty |-> FALSE, instants |-> Instants, gets |-> GetCalls,
              sets |-> SetCalls, payloads |-> Payloads]
    /\ cacheInstance = [id |-> 1, enabled |-> TRUE]
    /\ created = 1
    /\ dirExists = TRUE
    /\ store = EmptyStore
    /\ pendingSweeps = 0
    /\ last = [op |-> "getCache", threw |-> FALSE,
               ret |-> [id |-> 1, enabled |-> TRUE]]
    /\ latest = EmptyStore
    /\ OthersIdle

Next == CacheOps
Spec == Init /\ [][Next]_vars

\* The cache from process start, on a file system whose calls may fail
InitIO == CacheInit([faulty |-> TRUE, instants |-> Instants, gets |-> CallsIO,
                     sets |-> CallsIO, payloads |-> PayloadsIO])
NextIO == Lifecycle \/ CacheOps
SpecIO == InitIO /\ [][NextIO]_vars

(***************************************************************************)
(* The resource resolver (resource-resolver.ts)                            *)
(***************************************************************************)
Space == {" ", "\t", "\n"}

\* /^\d+$/
NUMERIC_ID_PATTERN(q) == Len(q) > 0 /\ \A i \in 1..Len(q) : q[i] \in Digits

\* /^[^\s@]+@[^\s@]+\.[^\s@]+$/
EMAIL_PATTERN(q) ==
    \E at \in 2..Len(q) :
        /\ q[at] = "@"
        /\ \A i \in 1..Len(q) : i # at => q[i] \notin (Space \cup {"@"})
        /\ \E dot \in (at + 2)..(Len(q) - 1) : q[dot] = "."

\* A mutation of NumberPattern without the i flag
NumberPattern_CaseSensitive(q, prefixes) ==
    \E p \in prefixes :
        /\ startsWith(q, p)
        /\ NUMERIC_ID_PATTERN(SubSeq(q, Len(p) + 1, Len(q)))

\* /^(a|b)-\d+$/i for the lower-case prefixes given with their dash
NumberPattern(q, prefixes) ==
    \E p \in prefixes :
        /\ startsWith(toLowerCase(q), p)
        /\ NUMERIC_ID_PATTERN(SubSeq(q, Len(p) + 1, Len(q)))

\* /^(PRJ|P)-\d+$/i
PROJECT_NUMBER_PATTERN(q) == NumberPattern(q, {<<"p","r","j","-">>, <<"p","-">>})

\* /^(D|DEAL)-\d+$/i
DEAL_NUMBER_PATTERN(q) == NumberPattern(q, {<<"d","-">>, <<"d","e","a","l","-">>})

Detection(type, pattern) ==
    Some([type |-> type, confidence |-> "high", pattern |-> pattern])

detectResourceType(query) ==
    IF NUMERIC_ID_PATTERN(query) THEN None
    ELSE IF EMAIL_PATTERN(query) THEN Detection("person", "email")
    ELSE IF PROJECT_NUMBER_PATTERN(query)
         THEN Detection("project", "project_number")
    ELSE IF DEAL_NUMBER_PATTERN(query) THEN Detection("deal", "deal_number")
    ELSE None

\* A mutation of isNumericId: no query is taken for a numeric id
isNumericId_Never(value) == FALSE

isNumericId(value) == NUMERIC_ID_PATTERN(value)

\* a || b on strings; an absent attribute is the empty string
OrElse(a, b) == IF a = << >> THEN b ELSE a

\* String.prototype.trim
RECURSIVE trim(_)
trim(s) ==
    IF s = << >> THEN s
    ELSE IF s[1] \in Space THEN trim(Tail(s))
    ELSE IF s[Len(s)] \in Space THEN trim(SubSeq(s, 1, Len(s) - 1))
    ELSE s

\* s.replace(/^prefix/, by)
replacePrefix(s, prefix, by) ==
    IF startsWith(s, prefix)
    THEN by \o SubSeq(s, Len(prefix) + 1, Len(s))
    ELSE s

(***************************************************************************)
(* The remote service the api object talks to.  A filter on an attribute   *)
(* returns the resources whose attribute equals the value; a filter on     *)
(* `query` is the server's own search, about which nothing is assumed: it  *)
(* may answer with any resources of the collection in any order.           *)
(***************************************************************************)
People ==
    << [id |-> <<"5","0","0","5","2","1">>, first_name |-> <<"J","o","h","n">>, last_name |-> <<"D","o","e">>,
        email |-> <<"j","@","d",".","i","o">>],
       [id |-> <<"5","0","0","5","2","2">>, first_name |-> << >>, last_name |-> << >>,
        email |-> <<"n","@","d",".","i","o">>] >>

Projects ==
    << [id |-> <<"1","1">>, name |-> <<"A","c","m","e">>, project_number |-> <<"P","R","J","-","1">>],
       [id |-> <<"1","2">>, name |-> << >>, project_number |-> <<"P","-","2">>] >>

Companies ==
    << [id |-> <<"2","1">>, name |-> <<"A","c","m","e">>],
       [id |-> <<"2","2">>, name |-> <<"A","c","m","e"," ","T","w","o">>] >>

Deals ==
    << [id |-> <<"3","1">>, name |-> <<"B","i","g">>, deal_number |-> <<"D","-","1">>],
       [id |-> <<"3","2">>, name |-> << >>, deal_number |-> <<"D","E","A","L","-","2">>] >>

Services ==
    << [id |-> <<"4","1">>, name |-> <<"D","e","v">>, project_id |-> <<"1","1">>],
       [id |-> <<"4","2">>, name |-> <<"D","e","v">>, project_id |-> <<"1","2">>],
       [id |-> <<"4","3">>, name |-> <<"D","e","v","O","p","s">>, project_id |-> <<"1","1">>] >>

Collection(fn) ==
    CASE fn = "getPeople" -> People
      [] fn = "getProjects" -> Projects
      [] fn = "getCompanies" -> Companies
      [] fn = "getDeals" -> Deals
      [] fn = "getServices" -> Services

ApiCall(fn, filter, perPage) ==
    [fn |-> fn, filter |-> filter, perPage |-> perPage]

Take(s, n) == SubSeq(s, 1, IF n < Len(s) THEN n ELSE Len(s))

RECURSIVE Matching(_, _)
Matching(table, filter) ==
    IF table = << >> THEN << >>
    ELSE LET r == Head(table)
             rest == Matching(Tail(table), filter)
         IN IF \A n \in 1..Len(filter) : r[filter[n][1]] = filter[n][2]
            THEN <<r>> \o rest
            ELSE rest

\* response.data of a call that filters on attributes
Response(call) == Take(Matching(Collection(call.fn), call.filter), call.perPage)

\* The answers the server may give to a filter on `query`
SearchResponses(table, perPage) ==
    LET items == {table[n] : n \in 1..Len(table)}
        most == IF perPage < Len(table) THEN perPage ELSE Len(table)
    IN UNION { { s \in [1..n -> items] :
                     \A a, b \in 1..n : a # b => s[a] # s[b] } : n \in 0..most }

ResolveResult(id, type, label, query, exact) ==
    [id |-> id, type |-> type, label |-> label, query |-> query,
     exact |-> exact]

Lookup1(result, calls) == [results |-> result, api |-> calls]

resolvePersonByEmail(email) ==
    LET call == ApiCall("getPeople", << <<"email", email>> >>, 1)
        data == Response(call)
    IN Lookup1(IF Len(data) = 0 THEN << >>
               ELSE << ResolveResult(data[1].id, "person",
                          OrElse(trim(data[1].first_name \o <<" ">>
                                      \o data[1].last_name), email),
                          email, TRUE) >>,
               <<call>>)

NameSearch(fn, name) == ApiCall(fn, << <<"query", name>> >>, 10)

resolvePersonByName(data, name) ==
    Lookup1([n \in 1..Len(data) |->
                ResolveResult(data[n].id, "person",
                    trim(data[n].first_name \o <<" ">> \o data[n].last_name),
                    name, FALSE)],
            <<NameSearch("getPeople", name)>>)

\* resolveProjectByNumber and resolveDealByNumber: the normalised number
\* first, the number as typed when that finds nothing
\* A mutation of resolveByNumber: both lookups are always issued
resolveByNumber_BothAlways(fn, type, attribute, normalizedNumber, number) ==
    LET call == ApiCall(fn, << <<attribute, normalizedNumber>> >>, 1)
        altCall == ApiCall(fn, << <<attribute, number>> >>, 1)
        data == Response(call)
        altData == Response(altCall)
        Found(r) == << ResolveResult(r.id, type, OrElse(r.name, number),
                                     number, TRUE) >>
    IN Lookup1(IF Len(data) > 0 THEN Found(data[1])
               ELSE IF Len(altData) > 0 THEN Found(altData[1]) ELSE << >>,
               <<call, altCall>>)

resolveByNumber(fn, type, attribute, normalizedNumber, number) ==
    LET call == ApiCall(fn, << <<attribute, normalizedNumber>> >>, 1)
        altCall == ApiCall(fn, << <<attribute, number>> >>, 1)
        data == Response(call)
        altData == Response(altCall)
        Found(r) == << ResolveResult(r.id, type, OrElse(r.name, number),
                                     number, TRUE) >>
    IN IF Len(data) = 0
       THEN Lookup1(IF Len(altData) = 0 THEN << >> ELSE Found(altData[1]),
                    <<call, altCall>>)
       ELSE Lookup1(Found(data[1]), <<call>>)

resolveProjectByNumber(projectNumber) ==
    resolveByNumber("getProjects", "project", "project_number",
        replacePrefix(toUpperCase(projectNumber), <<"P","-">>, <<"P","R","J","-">>),
        projectNumber)

resolveDealByNumber(dealNumber) ==
    resolveByNumber("getDeals", "deal", "deal_number",
        replacePrefix(toUpperCase(dealNumber), <<"D","E","A","L","-">>, <<"D","-">>),
        dealNumber)

\* A mutation of resolveByName: the hits come back in reverse order
resolveByName_Reversed(fn, type, data, name) ==
    Lookup1([n \in 1..Len(data) |->
                ResolveResult(data[Len(data) + 1 - n].id, type,
                              data[Len(data) + 1 - n].name, name, FALSE)],
            <<NameSearch(fn, name)>>)

\* resolveProjectByName, resolveCompanyByName, resolveDealByName
resolveByName(fn, type, data, name) ==
    Lookup1([n \in 1..Len(data) |->
                ResolveResult(data[n].id, type, data[n].name, name, FALSE)],
            <<NameSearch(fn, name)>>)

resolveServiceByName(name, projectId) ==
    LET call == ApiCall("getServices",
                    IF projectId # None
                    THEN << <<"project_id", projectId[1]>> >> ELSE << >>,
                    200)
        nameLower == toLowerCase(name)
        data == Response(call)
        hits == SelectSeq(data,
                    LAMBDA s : includes(toLowerCase(s.name), nameLower))
    IN Lookup1([n \in 1..Len(hits) |->
                   ResolveResult(hits[n].id, "service", hits[n].name, name,
                                 toLowerCase(hits[n].name) = nameLower)],
               <<call>>)

\* A mutation of getResolveCacheKey: the query is not lower-cased
getResolveCacheKey_AsTyped(orgId, type, query) ==
    <<"resolve", orgId, type, query>>

\* `resolve:${orgId}:${type}:${query.toLowerCase()}`, kept as its parts
getResolveCacheKey(orgId, type, query) ==
    <<"resolve", orgId, type, toLowerCase(query)>>

CACHE_TTL == [exact |-> 24 * 60 * 60 * 1000, fuzzy |-> 60 * 60 * 1000]

\* The resolve store (getSqliteCache(orgId).cacheGet / cacheSet): a value
\* is kept with the instant it expires at and is returned until then
cacheGet(cache, key, t) ==
    IF key \in DOMAIN cache /\ t <= cache[key].expiresAt
    THEN Some(cache[key].value)
    ELSE None

cacheSet(cache, key, value, ttl, t) ==
    [k \in DOMAIN cache \cup {key} |->
        IF k = key THEN [value |-> value, expiresAt |-> t + ttl]
        ELSE cache[k]]

getCachedResolve(orgId, type, query) ==
    cacheGet(rcache, getResolveCacheKey(orgId, type, query), now)

\* The arguments setCachedResolve calls cacheSet with
setCachedResolve(orgId, result) ==
    [key |-> getResolveCacheKey(orgId, result.type, result.query),
     value |-> result,
     ttl |-> IF result.exact THEN CACHE_TTL.exact ELSE CACHE_TTL.fuzzy]

\* A mutation of cachesResults: any non-empty resolution is cached
cachesResults_AnyMatch(orgId, results) == orgId # None /\ Len(results) >= 1

\* orgId && results.length === 1
cachesResults(orgId, results) == orgId # None /\ Len(results) = 1

\* The type resolve works with: the one given, else the one detected
resourceTypeOf(query, options) ==
    IF options.type # None THEN options.type
    ELSE IF detectResourceType(query) # None
         THEN Some(detectResourceType(query)[1].type)
         ELSE None

\* The pattern resolve works with: that of the detection, when it ran
patternOf(query, options) ==
    IF options.type = None /\ detectResourceType(query) # None
    THEN detectResourceType(query)[1].pattern
    ELSE "undefined"

\* The collection whose name search the switch of resolve ends in
searchedBy(resourceType, pattern, query) ==
    CASE resourceType = "person" ->
             IF pattern = "email" \/ EMAIL_PATTERN(query)
             THEN "none" ELSE "getPeople"
      [] resourceType = "project" ->
             IF pattern = "project_number" \/ PROJECT_NUMBER_PATTERN(query)
             THEN "none" ELSE "getProjects"
      [] resourceType = "company" -> "getCompanies"
      [] resourceType = "deal" ->
             IF pattern = "deal_number" \/ DEAL_NUMBER_PATTERN(query)
             THEN "none" ELSE "getDeals"
      [] resourceType = "service" -> "none"

\* The switch of resolve; data is the server's answer to the name search
resolveByType(resourceType, pattern, query, projectId, data) ==
    CASE resourceType = "person" ->
             IF pattern = "email" \/ EMAIL_PATTERN(query)
             THEN resolvePersonByEmail(query)
             ELSE resolvePersonByName(data, query)
      [] resourceType = "project" ->
             IF pattern = "project_number" \/ PROJECT_NUMBER_PATTERN(query)
             THEN resolveProjectByNumber(query)
             ELSE resolveByName("getProjects", "project", data, query)
      [] resourceType = "company" ->
             resolveByName("getCompanies", "company", data, query)
      [] resourceType = "deal" ->
             IF pattern = "deal_number" \/ DEAL_NUMBER_PATTERN(query)
             THEN resolveDealByNumber(query)
             ELSE resolveByName("getDeals", "deal", data, query)
      [] resourceType = "service" -> resolveServiceByName(query, projectId)

\* A mutation of ResolveError: the error does not carry the attempted type
ResolveError_NoType(query, type) ==
    Some([name |-> "ResolveError", query |-> query, type |-> None])

ResolveError(query, type) ==
    Some([name |-> "ResolveError", query |-> query, type |-> type])

\* What one call of resolve did: what it returned or threw, the matches of
\* its resolution, the API calls it dispatched and its cache traffic
Outcome(error, results, matches, api, gets, sets) ==
    [threw |-> error # None, error |-> error, results |-> results,
     matches |-> matches, api |-> api, cacheGets |-> gets, cacheSets |-> sets]

resolve(query, options, data) ==
    IF isNumericId(query)
    THEN Outcome(None,
             << ResolveResult(query,
                    IF options.type # None THEN options.type[1] ELSE "project",
                    query, query, TRUE) >>,
             << >>, << >>, << >>, << >>)
    ELSE
    LET resourceType == resourceTypeOf(query, options)
        looksUp == options.orgId # None /\ resourceType # None
        cached == IF looksUp
                  THEN getCachedResolve(options.orgId[1], resourceType[1], query)
                  ELSE None
        gets == IF looksUp
                THEN << getResolveCacheKey(options.orgId[1], resourceType[1],
                                           query) >>
                ELSE << >>
    IN IF cached # None
       THEN Outcome(None, <<cached[1]>>, << >>, << >>, gets, << >>)
       ELSE IF resourceType = None
       THEN Outcome(ResolveError(query, None), << >>, << >>, << >>, gets, << >>)
       ELSE
       LET found == resolveByType(resourceType[1], patternOf(query, options),
                                  query, options.projectId, data)
           results == found.results
       IN IF Len(results) = 0
          THEN Outcome(ResolveError(query, resourceType), << >>, << >>,
                       found.api, gets, << >>)
          ELSE Outcome(None,
                   IF options.first /\ Len(results) > 1
                   THEN <<results[1]>> ELSE results,
                   results, found.api, gets,
                   IF cachesResults(options.orgId, results)
                   THEN << setCachedResolve(options.orgId[1], results[1]) >>
                   ELSE << >>)

(***************************************************************************)
(* The calls of resolve that are made                                      *)
(***************************************************************************)
Options(type, projectId, first, orgId) ==
    [type |-> type, projectId |-> projectId, first |-> first, orgId |-> orgId]

ResolveCall(query, options) == [query |-> query, options |-> options]

ResolveCalls ==
    << ResolveCall(<<"4","2">>, Options(None, None, FALSE, Some("org-1"))),
       ResolveCall(<<"4","2">>, Options(Some("person"), None, FALSE, Some("org-1"))),
       ResolveCall(<<"4","2">>, Options(Some("service"), Some(<<"1","1">>), TRUE, None)),
       ResolveCall(<<"j","@","d",".","i","o">>, Options(None, None, FALSE, Some("org-1"))),
       ResolveCall(<<"A","c","m","e">>, Options(Some("company"), None, FALSE,
                                    Some("org-1"))),
       ResolveCall(<<"A","c","m","e">>, Options(Some("company"), None, TRUE,
                                    Some("org-1"))),
       ResolveCall(<<"a","c","m","e">>, Options(Some("company"), None, FALSE,
                                    Some("org-1"))),
       ResolveCall(<<"j","@","d",".","i","o">>, Options(None, None, FALSE, Some("org-2"))),
       ResolveCall(<<"A","c","m","e">>, Options(None, None, FALSE, Some("org-1"))),
       ResolveCall(<<"p","-","1">>, Options(None, None, FALSE, None)),
       ResolveCall(<<"D","E","A","L","-","2">>, Options(Some("deal"), None, FALSE, None)),
       ResolveCall(<<"d","e","v">>, Options(Some("service"), Some(<<"1","2">>), FALSE,
                                   Some("org-1"))),
       ResolveCall(<<"d","e","v">>, Options(Some("service"), Some(<<"1","1">>), TRUE,
                                   Some("org-1"))),
       ResolveCall(<<"D","o","e">>, Options(Some("person"), None, FALSE, None)),
       ResolveCall(<<"P","-","2">>, Options(Some("project"), None, FALSE, None)),
       ResolveCall(<<"p","r","j","-","9">>, Options(None, None, FALSE, None)),
       ResolveCall(<<"d","-","1">>, Options(None, None, FALSE, None)),
       ResolveCall(<<"D","e","a","l","-","9">>, Options(None, None, FALSE, None)) >>

\* The start, one hour just passed and one day just passed
ResolveInstants == {0, 60 * 60 * 1000 + 1, 24 * 60 * 60 * 1000 + 1}

\* The answers the server may give to the name search of a call, if it
\* makes one
Searches(call) ==
    LET resourceType == resourceTypeOf(call.query, call.options)
        fn == IF resourceType = None THEN "none"
              ELSE searchedBy(resourceType[1],
                              patternOf(call.query, call.options), call.query)
    IN IF fn = "none" THEN { << >> }
       ELSE SearchResponses(Collection(fn), 10)

RECURSIVE cacheSetAll(_, _, _)
cacheSetAll(cache, sets, t) ==
    IF sets = << >> THEN cache
    ELSE cacheSetAll(cacheSet(cache, sets[1].key, sets[1].value, sets[1].ttl, t),
                     Tail(sets), t)

\* What the resolve store holds, live, for the tenant, type and lower-cased
\* query of a call
Held(call) ==
    LET resourceType == resourceTypeOf(call.query, call.options)
    IN IF call.options.orgId = None \/ resourceType = None THEN None
       ELSE cacheGet(rcache,
                     <<"resolve", call.options.orgId[1], resourceType[1],
                       toLowerCase(call.query)>>,
                     now)

\* await resolve(api, query, options)
Resolve(i) ==
    \E data \in Searches(ResolveCalls[i]) :
    \E out \in { resolve(ResolveCalls[i].query, ResolveCalls[i].options, data) } :
        LET call == ResolveCalls[i]
        IN /\ rcache' = cacheSetAll(rcache, out.cacheSets, now)
           /\ last' = [op |-> "resolve", call |-> i, held |-> Held(call),
                       threw |-> out.threw, error |-> out.error,
                       results |-> out.results, matches |-> out.matches,
                       api |-> out.api, cacheGets |-> out.cacheGets,
                       cacheSets |-> out.cacheSets,
                       answered |-> IF out.api = << >> THEN << >> ELSE data]
           /\ UNCHANGED <<now, env, cacheInstance, created, dirExists, store,
                          pendingSweeps, latest, filt, limiterVars,
                          handlerVars>>

InitResolve ==
    CacheInit([faulty |-> FALSE, instants |-> ResolveInstants, gets |-> {},
               sets |-> {}, payloads |-> {}])

NextResolve ==
    \/ \E i \in 1..Len(ResolveCalls) : Resolve(i)
    \/ Tick

SpecResolve == InitResolve /\ [][NextResolve]_vars

(***************************************************************************)
(* resolveFilterValue and resolveFilterIds                                 *)
(***************************************************************************)
\* { ...options, type, first: true }
withType(options, type) ==
    [type |-> Some(type), projectId |-> options.projectId, first |-> TRUE,
     orgId |-> options.orgId]

NoOutcome == Outcome(None, << >>, << >>, << >>, << >>, << >>)

\* What one call of resolveFilterValue did: the id it returned or the error
\* it threw, and what its call of resolve did
Returned(id, error, inner) ==
    [threw |-> error # None, error |-> error, ret |-> id, inner |-> inner]

\* A mutation of resolveFilterValue: the type is left to the detection
resolveFilterValue_Untyped(value, type, options, data) ==
    LET out == resolve(value, [options EXCEPT !.first = TRUE], data)
    IN IF isNumericId(value) THEN Returned(Some(value), None, NoOutcome)
       ELSE IF out.threw THEN Returned(None, out.error, out)
       ELSE Returned(Some(out.results[1].id), None, out)

resolveFilterValue(value, type, options, data) ==
    LET out == resolve(value, withType(options, type), data)
    IN IF isNumericId(value) THEN Returned(Some(value), None, NoOutcome)
       ELSE IF out.threw THEN Returned(None, out.error, out)
       ELSE IF Len(out.results) = 0
       THEN Returned(None, ResolveError(value, Some(type)), out)
       ELSE Returned(Some(out.results[1].id), None, out)

FilterOptions(projectId, orgId) ==
    [type |-> None, projectId |-> projectId, first |-> FALSE, orgId |-> orgId]

\* The calls of resolveFilterValue that are made: value, type, options
FilterValueCalls ==
    << <<<<"4","2">>, "person", FilterOptions(None, Some("org-1"))>>,
       <<<<"j","@","d",".","i","o">>, "person", FilterOptions(None, Some("org-1"))>>,
       <<<<"A","c","m","e">>, "company", FilterOptions(None, None)>>,
       <<<<"d","e","v">>, "service", FilterOptions(Some(<<"1","1">>), None)>> >>

\* await resolveFilterValue(api, value, type, options)
ResolveFilterValue(i) ==
    LET value == FilterValueCalls[i][1]
        type == FilterValueCalls[i][2]
        options == FilterValueCalls[i][3]
        asked == ResolveCall(value, withType(options, type))
    IN \E data \in Searches(asked) :
       \E r \in { resolveFilterValue(value, type, options, data) } :
           /\ rcache' = cacheSetAll(rcache, r.inner.cacheSets, now)
           /\ last' = [op |-> "resolveFilterValue", call |-> i,
                       threw |-> r.threw, error |-> r.error, ret |-> r.ret,
                       held |-> Held(asked), matches |-> r.inner.matches,
                       api |-> r.inner.api, cacheGets |-> r.inner.cacheGets,
                       cacheSets |-> r.inner.cacheSets]
           /\ UNCHANGED <<now, env, cacheInstance, created, dirExists, store,
                          pendingSweeps, latest, filt, limiterVars,
                          handlerVars>>

\* The calls of resolveFilterIds that are made: the entries of filters in
\* insertion order, typeMapping, options
P_open == <<"o","p","e","n">>
FilterIdsCalls ==
    << [filters |-> << <<"person_id", <<"j","@","d",".","i","o">>>>, <<"status", P_open>>,
                       <<"project_id", <<"4","2">>>> >>,
        typeMapping |-> [k \in {"person_id", "project_id"} |->
                            IF k = "person_id" THEN "person" ELSE "project"],
        options |-> FilterOptions(None, Some("org-1"))],
       [filters |-> << <<"company_id", <<"A","c","m","e">>>>, <<"person_id", <<"j","@","d",".","i","o">>>> >>,
        typeMapping |-> [k \in {"company_id", "person_id"} |->
                            IF k = "person_id" THEN "person" ELSE "company"],
        options |-> FilterOptions(None, None)],
       [filters |-> << <<"status", P_open>>, <<"service_id", <<"o","p","s">>>>,
                       <<"deal_id", <<"D","-","9">>>> >>,
        typeMapping |-> [k \in {"service_id", "deal_id"} |->
                            IF k = "deal_id" THEN "deal" ELSE "service"],
        options |-> FilterOptions(Some(<<"1","1">>), Some("org-1"))] >>

\* !type || isNumericId(value)
keepsValue(typeMapping, key, value) ==
    key \notin DOMAIN typeMapping \/ isNumericId(value)

\* The iterations of the loop that run without an await: from entry i, the
\* entries that keep their value
RECURSIVE keptFrom(_, _, _)
keptFrom(call, resolved, i) ==
    IF i > Len(call.filters) THEN [resolved |-> resolved, next |-> i]
    ELSE IF keepsValue(call.typeMapping, call.filters[i][1], call.filters[i][2])
    THEN keptFrom(call, Append(resolved, call.filters[i]), i + 1)
    ELSE [resolved |-> resolved, next |-> i]

\* A mutation of filterEntry: a resolution that fails drops the value
filterEntry_DropsOnFailure(value, out) ==
    IF ~out.threw /\ Len(out.results) > 0
    THEN [value |-> out.results[1].id,
          metadata |-> Some([input |-> value, id |-> out.results[1].id,
                             label |-> out.results[1].label,
                             reusable |-> out.results[1].exact])]
    ELSE [value |-> << >>, metadata |-> None]

\* The body of the try / catch around resolve: what the key gets
filterEntry(value, out) ==
    IF ~out.threw /\ Len(out.results) > 0
    THEN [value |-> out.results[1].id,
          metadata |-> Some([input |-> value, id |-> out.results[1].id,
                             label |-> out.results[1].label,
                             reusable |-> out.results[1].exact])]
    ELSE [value |-> value, metadata |-> None]

\* resolveFilterIds(api, filters, typeMapping, options), up to its first
\* await or, with nothing to resolve, to its return
ResolveFilterIds(c) ==
    /\ filt.call = 0 \/ filt.done
    /\ LET start == keptFrom(FilterIdsCalls[c], << >>, 1)
       IN filt' = [call |-> c, next |-> start.next,
                   done |-> start.next > Len(FilterIdsCalls[c].filters),
                   resolved |-> start.resolved, metadata |-> << >>,
                   trace |-> << >>]
    /\ last' = [op |-> "resolveFilterIds", threw |-> FALSE]
    /\ UNCHANGED <<now, env, cacheInstance, created, dirExists, store,
                   pendingSweeps, latest, rcache, limiterVars, handlerVars>>

\* resolveFilterIds from one await of resolve to the next, or to its return
FilterIdsStep ==
    /\ filt.call # 0
    /\ ~filt.done
    /\ LET call == FilterIdsCalls[filt.call]
           key == call.filters[filt.next][1]
           value == call.filters[filt.next][2]
           options == withType(call.options, call.typeMapping[key])
       IN \E data \in Searches(ResolveCall(value, options)) :
          \E out \in { resolve(value, options, data) } :
          \E entry \in { filterEntry(value, out) } :
              LET rest == keptFrom(call,
                              Append(filt.resolved, <<key, entry.value>>),
                              filt.next + 1)
              IN /\ rcache' = cacheSetAll(rcache, out.cacheSets, now)
                 /\ filt' = [filt EXCEPT
                        !.next = rest.next,
                        !.done = rest.next > Len(call.filters),
                        !.resolved = rest.resolved,
                        !.metadata = IF entry.metadata = None THEN @
                                     ELSE Append(@, <<key, entry.metadata[1]>>),
                        !.trace = Append(@, [key |-> key, threw |-> out.threw,
                                             results |-> out.results])]
    /\ last' = [op |-> "resolveFilterIds", threw |-> FALSE]
    /\ UNCHANGED <<now, env, cacheInstance, created, dirExists, store,
                   pendingSweeps, latest, limiterVars, handlerVars>>

NextFilters ==
    \/ \E i \in 1..Len(FilterValueCalls) : ResolveFilterValue(i)
    \/ \E c \in 1..Len(FilterIdsCalls) : ResolveFilterIds(c)
    \/ FilterIdsStep
    \/ Tick

SpecFilters == InitResolve /\ [][NextFilters]_vars

(***************************************************************************)
(* The rate limiter and executeWithRetry.  Their source is not in the      *)
(* tree: they are modelled from section 4.1 and section 5 of the           *)
(* specification.  One limiter class; the clock counts scaled milliseconds.*)
(***************************************************************************)
\* The configuration of the class: {limit, windowMs, maxRetries, baseDelayMs}
limit == 2
windowMs == 3
maxRetries == 2
baseDelayMs == 1

Tasks == 1..NumTasks

\* "Prune timestamps older than now - windowMs": a timestamp stays while it
\* is inside the trailing window, so that the wait computed from the oldest
\* one ends when that one leaves the window
prune(timestamps, t) == SelectSeq(timestamps, LAMBDA x : t - x < windowMs)

\* A mutation of admissible: a task that waited admits itself on waking
admissible_TrustDelay(timestamps, woke) == woke \/ Len(timestamps) < limit

\* "if remaining count < limit": also for a task that wakes from its wait
admissible(timestamps, woke) == Len(timestamps) < limit

\* "wait windowMs - (now - oldest)"
waitFor(timestamps, t) == windowMs - (t - timestamps[1])

\* 2^n
RECURSIVE Pow2(_)
Pow2(n) == IF n = 0 THEN 1 ELSE 2 * Pow2(n - 1)

\* A mutation of delays: the delay the server asked for is not read
delays_Exponential(attempt, retryAfterMs) ==
    { baseDelayMs * Pow2(attempt) + j : j \in 0..(baseDelayMs - 1) }

\* "delay = baseDelayMs * 2^attempt + jitter(0, baseDelayMs)", or the delay
\* the server asked for
delays(attempt, retryAfterMs) ==
    IF retryAfterMs # None THEN { retryAfterMs[1] }
    ELSE { baseDelayMs * Pow2(attempt) + j : j \in 0..(baseDelayMs - 1) }

\* A mutation of mayRetry: a throttled call is retried without end
mayRetry_Always(attempt) == TRUE

\* "Retries up to a fixed ceiling"
mayRetry(attempt) == attempt < maxRetries

\* What the server answers to a call that was sent
Answers ==
    { [status |-> 200, retryAfterMs |-> None],
      [status |-> 429, retryAfterMs |-> None],
      [status |-> 429, retryAfterMs |-> Some(2)] }

NoAnswer == [status |-> 0, retryAfterMs |-> None]
NoError == [kind |-> "none", attempts |-> 0, retryAfterMs |-> None]

\* A task that has just called executeWithRetry(fn)
NewTask ==
    [pc |-> "acquire", wakeAt |-> 0, waits |-> 0, attempt |-> 0,
     acquired |-> 0, sent |-> 0, answer |-> NoAnswer, error |-> NoError]

\* acquire(class), from its call or from the end of a wait to its return or
\* to its next wait: no other task runs in between
Acquire(t) ==
    /\ \/ tasks[t].pc = "acquire"
       \/ tasks[t].pc = "waiting" /\ now >= tasks[t].wakeAt
    /\ LET kept == prune(lim.timestamps, now)
       IN IF admissible(kept, tasks[t].pc = "waiting")
          THEN /\ lim' = [timestamps |-> Append(kept, now),
                          admitted |-> Append(lim.admitted, now)]
               /\ tasks' = [tasks EXCEPT ![t].pc = "admitted",
                                         ![t].acquired = @ + 1]
          ELSE /\ lim' = [lim EXCEPT !.timestamps = kept]
               /\ tasks' = [tasks EXCEPT ![t].pc = "waiting",
                                         ![t].waits = @ + 1,
                                         ![t].wakeAt = now + waitFor(kept, now)]
    /\ UNCHANGED <<cacheVars, resolverVars, handlerVars>>

Throttled(t, answer) ==
    IF mayRetry(tasks[t].attempt)
    THEN \E delay \in delays(tasks[t].attempt, answer.retryAfterMs) :
             tasks' = [tasks EXCEPT ![t].pc = "backoff",
                                    ![t].sent = @ + 1,
                                    ![t].answer = answer,
                                    ![t].wakeAt = now + delay,
                                    ![t].attempt = @ + 1]
    ELSE tasks' = [tasks EXCEPT ![t].pc = "failed",
                                ![t].sent = @ + 1,
                                ![t].answer = answer,
                                ![t].error =
                                    [kind |-> "RateLimitExceeded",
                                     attempts |-> tasks[t].attempt + 1,
                                     retryAfterMs |-> answer.retryAfterMs]]

\* The admitted call is sent and answered
Send(t) ==
    /\ tasks[t].pc = "admitted"
    /\ \E answer \in Answers :
           IF answer.status = 429
           THEN Throttled(t, answer)
           ELSE tasks' = [tasks EXCEPT ![t].pc = "done",
                                       ![t].sent = @ + 1,
                                       ![t].answer = answer]
    /\ UNCHANGED <<cacheVars, resolverVars, handlerVars, lim>>

\* The backoff delay is over: the call goes back to the limiter
Resume(t) ==
    /\ tasks[t].pc = "backoff"
    /\ now >= tasks[t].wakeAt
    /\ tasks' = [tasks EXCEPT ![t].pc = "acquire"]
    /\ UNCHANGED <<cacheVars, resolverVars, handlerVars, lim>>

InitLimiter ==
    /\ now = 0
    /\ env = [faulty |-> FALSE, instants |-> 0..MaxTime, gets |-> {},
              sets |-> {}, payloads |-> {}]
    /\ cacheInstance = NoInstance
    /\ created = 0
    /\ dirExists = FALSE
    /\ store = EmptyStore
    /\ pendingSweeps = 0
    /\ last = [op |-> "init", threw |-> FALSE]
    /\ latest = EmptyStore
    /\ rcache = EmptyStore
    /\ filt = [call |-> 0, next |-> 0, done |-> FALSE, resolved |-> << >>,
               metadata |-> << >>, trace |-> << >>]
    /\ batch = [state |-> "idle"]
    /\ lim = [timestamps |-> << >>, admitted |-> << >>]
    /\ tasks = [t \in Tasks |-> NewTask]

NextLimiter ==
    \/ \E t \in Tasks : Acquire(t)
    \/ \E t \in Tasks : Send(t)
    \/ \E t \in Tasks : Resume(t)
    \/ Tick

SpecLimiter == InitLimiter /\ [][NextLimiter]_vars

\* Process start with no cache, no resolution, no request and no batch under
\* way: the state the functions below are called in
InitIdle ==
    CacheInit([faulty |-> FALSE, instants |-> {0}, gets |-> {}, sets |-> {},
               payloads |-> {}])

(***************************************************************************)
(* detectResourceType and isNumericId on their own                         *)
(***************************************************************************)
\* The strings the two functions are applied to: head, separator and tail
Queries ==
    LET heads == { << >>, <<"P">>, <<"p">>, <<"P","R","J">>, <<"p","r","j">>, <<"P","r","j">>, <<"p","R","J">>, <<"D">>, <<"d">>, <<"D","E","A","L">>,
              <<"d","e","a","l">>, <<"D","e","A","l">>, <<"X">>, <<"a">>, <<"1">>, <<"P","R">>, <<"D","E","A">>, <<" ","P">>, <<"P","P">> }
        separators == { << >>, <<"-">>, <<"@">>, <<"_">> }
        tails == { << >>, <<"1">>, <<"4","2">>, <<"0","0","7">>, <<"1","a">>, <<"a","1">>, <<"-","1">>, <<"1"," ">>, <<"a",".","b">>, <<"a",".">>,
              <<".","b">>, <<"a"," ","b",".","c">>, <<"b","@","c",".","d">>, <<"a",".","b",".","c">> }
    IN { h \o s \o t : h \in heads, s \in separators, t \in tails }

\* detectResourceType(query)
DetectResourceType(query) ==
    /\ last' = [op |-> "detectResourceType", threw |-> FALSE, query |-> query,
                ret |-> detectResourceType(query)]
    /\ UNCHANGED <<now, env, cacheInstance, created, dirExists, store,
                   pendingSweeps, latest, nonCacheVars>>

\* isNumericId(value)
IsNumericId(value) ==
    /\ last' = [op |-> "isNumericId", threw |-> FALSE, query |-> value,
                ret |-> isNumericId(value)]
    /\ UNCHANGED <<now, env, cacheInstance, created, dirExists, store,
                   pendingSweeps, latest, nonCacheVars>>

NextDetect ==
    \/ \E query \in Queries : DetectResourceType(query)
    \/ \E value \in Queries : IsNumericId(value)

SpecDetect == InitIdle /\ [][NextDetect]_vars

(***************************************************************************)
(* FileCache.getTTL on its own                                             *)
(***************************************************************************)
\* The endpoints set is called with: each prefix of the table followed by
\* the rest of a path, and endpoints that start with none of them
Endpoints ==
    LET rests == { << >>, <<"/","1">>, <<"/","1","/","t","a","s","k","s">>, <<"_","x">>, <<"?","p","a","g","e","=","1">> }
        others == { << >>, <<"/">>, <<"/","d","e","a","l","s">>, <<"/","p","r","o","j","e","c","t">>, <<"/","t","a","s","k">>, <<"/","t","i","m","e">>, <<"p","r","o","j","e","c","t","s">>,
              <<"/","P","r","o","j","e","c","t","s">>, <<"/","c","o","m","p","a","n","i","e","s","/","p","r","o","j","e","c","t","s">>, <<"/","v","2","/","t","a","s","k","s">> }
    IN { DEFAULT_TTLS[i][1] \o r : i \in 1..Len(DEFAULT_TTLS), r \in rests }
           \cup others

\* options?.ttl, in seconds
TtlOptions == { None, Some(0), Some(1), Some(300), Some(900), Some(3600),
                Some(86400) }

\* set(endpoint, params, orgId, data, options): the ttl of the entry written,
\* this.getTTL(endpoint, options?.ttl)
GetTTL(endpoint, customTTL) ==
    /\ last' = [op |-> "getTTL", threw |-> FALSE, endpoint |-> endpoint,
                customTTL |-> customTTL, ret |-> getTTL(endpoint, customTTL)]
    /\ UNCHANGED <<now, env, cacheInstance, created, dirExists, store,
                   pendingSweeps, latest, nonCacheVars>>

NextTTL == \E endpoint \in Endpoints, customTTL \in TtlOptions :
               GetTTL(endpoint, customTTL)

SpecTTL == InitIdle /\ [][NextTTL]_vars

(***************************************************************************)
(* handleBatch (packages/mcp/src/handlers/batch.ts)                        *)
(***************************************************************************)
MAX_BATCH_SIZE == 10

\* An element of the operations array.  `runs` is what the injected execute
\* function does with the operation, `id` is a parameter that tells the
\* operations of one batch apart
Op(resource, action, id, runs) ==
    [object |-> TRUE, resource |-> resource, action |-> action, id |-> id,
     runs |-> runs]

\* The values handleBatch is called with as `operations`
BatchInputs ==
    LET list == Some(<<"l","i","s","t">>)
        blank == Some(<<" "," ">>)
        ProjectsList(id, runs) == Op(Some(S_projects_word), list, id, runs)
        NotAnObject == [object |-> FALSE, resource |-> None, action |-> None,
                        id |-> 0, runs |-> "data"]
    IN << [array |-> FALSE, items |-> << >>],
          [array |-> TRUE, items |-> << >>],
          [array |-> TRUE,
           items |-> << ProjectsList(1, "data"),
                        Op(Some(<<"t","a","s","k","s">>), list, 2, "throws"),
                        Op(Some(<<"p","e","o","p","l","e">>), list, 3, "data") >>],
          [array |-> TRUE,
           items |-> << ProjectsList(1, "errorResult"), ProjectsList(2, "text"),
                        ProjectsList(3, "errorText"), ProjectsList(4, "empty") >>],
          [array |-> TRUE,
           items |-> [i \in 1..MAX_BATCH_SIZE |->
                         ProjectsList(i, IF i = 4 THEN "throws" ELSE "data")]],
          [array |-> TRUE,
           items |-> [i \in 1..(MAX_BATCH_SIZE + 1) |-> ProjectsList(i, "data")]],
          [array |-> TRUE,
           items |-> << ProjectsList(1, "data"), Op(blank, list, 2, "data"),
                        ProjectsList(3, "data") >>],
          [array |-> TRUE,
           items |-> << Op(Some(<<"t","a","s","k","s">>), None, 1, "data"),
                        NotAnObject >>],
          [array |-> TRUE,
           items |-> << ProjectsList(1, "data"), ProjectsList(2, "errorImage"),
                        ProjectsList(3, "errorResult") >>],
          [array |-> TRUE,
           items |-> << ProjectsList(1, "data"), Op(None, blank, 2, "data"),
                        ProjectsList(3, "data"), NotAnObject >>],
          [array |-> TRUE,
           items |-> [i \in 1..(MAX_BATCH_SIZE + 1) |->
                         IF i = 3 THEN NotAnObject ELSE ProjectsList(i, "data")]] >>

\* typeof field !== 'string' || field.trim() === ''
missing(field) == field = None \/ trim(field[1]) = << >>

\* A line of advice of a UserInputError; `Operation at index ${i}: ...` names
\* an index
Hint(index, text) == [index |-> index, text |-> text]

\* A mutation of validateFrom: the loop ends at the first invalid element
RECURSIVE validateFrom_FirstOnly(_, _, _, _)
validateFrom_FirstOnly(items, i, validatedOps, errors) ==
    IF i > Len(items) \/ errors # << >>
    THEN [validatedOps |-> validatedOps, errors |-> errors]
    ELSE IF ~items[i].object \/ items[i].resource = None \/ items[i].action = None
    THEN validateFrom_FirstOnly(items, i + 1, validatedOps,
                                Append(errors, Hint(Some(i - 1), "invalid")))
    ELSE validateFrom_FirstOnly(items, i + 1, Append(validatedOps, items[i]),
                                errors)

\* The loop of validateOperations from element i on: the operations pushed
\* and the errors collected
RECURSIVE validateFrom(_, _, _, _)
validateFrom(items, i, validatedOps, errors) ==
    IF i > Len(items) THEN [validatedOps |-> validatedOps, errors |-> errors]
    ELSE IF ~items[i].object
    THEN validateFrom(items, i + 1, validatedOps,
                      Append(errors, Hint(Some(i - 1), "must be an object")))
    ELSE LET e1 == IF missing(items[i].resource)
                   THEN Append(errors, Hint(Some(i - 1), "resource")) ELSE errors
             e2 == IF missing(items[i].action)
                   THEN Append(e1, Hint(Some(i - 1), "action")) ELSE e1
         IN validateFrom(items, i + 1,
                IF e2 = << >> THEN Append(validatedOps, items[i])
                ELSE validatedOps,
                e2)

UserInputError(message, hints) ==
    Some([name |-> "UserInputError", message |-> message, hints |-> hints])

\* UserInputError.toFormattedMessage(): the message followed by every hint
toFormattedMessage(error) == <<Hint(None, error.message)>> \o error.hints

\* inputErrorResult(error)
inputErrorResult(error) ==
    [isError |-> TRUE, error |-> error, text |-> toFormattedMessage(error)]

\* A mutation of exceedsMax: no batch is too large
exceedsMax_Never(length) == FALSE

\* operations.length > MAX_BATCH_SIZE
exceedsMax(length) == length > MAX_BATCH_SIZE

\* validateOperations: the operations, or the UserInputError thrown
validateOperations(operations) ==
    IF ~operations.array
    THEN [error |-> UserInputError("operations must be an array",
                                   <<Hint(None, "Provide an array")>>),
          validatedOps |-> << >>]
    ELSE IF Len(operations.items) = 0
    THEN [error |-> UserInputError("operations array cannot be empty",
                                   <<Hint(None, "Provide at least one operation")>>),
          validatedOps |-> << >>]
    ELSE IF exceedsMax(Len(operations.items))
    THEN [error |-> UserInputError("operations array exceeds maximum size",
                                   <<Hint(None, "Split your batch")>>),
          validatedOps |-> << >>]
    ELSE LET v == validateFrom(operations.items, 1, << >>, << >>)
         IN IF v.errors # << >>
            THEN [error |-> UserInputError("Invalid operations in batch",
                                           v.errors),
                  validatedOps |-> << >>]
            ELSE [error |-> None, validatedOps |-> v.validatedOps]

\* What an execution produced: parsed JSON, a text, a thrown message or null
Payload(kind, id) == Some([kind |-> kind, from |-> id])

\* A mutation of BatchOperationResult: the index counts from one
BatchOperationResult_OneBased(operation, index, data, error) ==
    [resource |-> operation.resource[1], action |-> operation.action[1],
     index |-> index + 1, data |-> data, error |-> error]

BatchOperationResult(operation, index, data, error) ==
    [resource |-> operation.resource[1], action |-> operation.action[1],
     index |-> index, data |-> data, error |-> error]

\* A mutation of executeOperation: an execution that throws is not caught
\* per operation and leaves its result empty
executeOperation_Uncaught(operation, index) ==
    IF operation.runs = "throws"
    THEN BatchOperationResult(operation, index, None, None)
    ELSE BatchOperationResult(operation, index,
                              Payload("json", operation.id), None)

\* executeOperation, from the answer of execute on
executeOperation(operation, index) ==
    CASE operation.runs = "data" ->
             BatchOperationResult(operation, index,
                                  Payload("json", operation.id), None)
      [] operation.runs = "text" ->
             BatchOperationResult(operation, index,
                                  Payload("text", operation.id), None)
      [] operation.runs \in {"errorResult", "errorText"} ->
             BatchOperationResult(operation, index, None,
                                  Payload("text", operation.id))
      \* content[0] is absent or not a text: isError is not looked at
      [] operation.runs \in {"empty", "errorImage"} ->
             BatchOperationResult(operation, index, Payload("null", 0), None)
      [] operation.runs = "throws" ->
             BatchOperationResult(operation, index, None,
                                  Payload("message", operation.id))

\* jsonResult({ _batch: summary, results }): an operation succeeded when
\* r.data !== undefined && r.error === undefined and failed when
\* r.error !== undefined
BatchResponse(results) ==
    [isError |-> FALSE,
     batch |-> [total |-> Len(results),
                succeeded |-> Cardinality({i \in 1..Len(results) :
                    results[i].data # None /\ results[i].error = None}),
                failed |-> Cardinality({i \in 1..Len(results) :
                    results[i].error # None})],
     results |-> results]

\* handleBatch(operations, credentials, execute), to its return with an
\* input error or to the await of Promise.all: the map over the operations
\* has called execute for each of them
HandleBatch(k) ==
    /\ batch.state \in {"idle", "returned"}
    /\ LET v == validateOperations(BatchInputs[k])
           n == Len(v.validatedOps)
       IN batch' =
              IF v.error # None
              THEN [state |-> "returned", input |-> k, ops |-> << >>,
                    pending |-> {}, executed |-> << >>, results |-> << >>,
                    response |-> inputErrorResult(v.error[1])]
              ELSE [state |-> "running", input |-> k, ops |-> v.validatedOps,
                    pending |-> 1..n, executed |-> [i \in 1..n |-> 1],
                    results |-> [i \in 1..n |-> None],
                    response |-> [isError |-> FALSE]]
    /\ UNCHANGED <<cacheVars, resolverVars, limiterVars>>

\* The execute call of one operation settles and executeOperation returns
Settle(i) ==
    /\ batch.state = "running"
    /\ i \in batch.pending
    /\ batch' = [batch EXCEPT
           !.pending = @ \ {i},
           !.results[i] = Some(executeOperation(batch.ops[i], i - 1))]
    /\ UNCHANGED <<cacheVars, resolverVars, limiterVars>>

\* Promise.all has settled: the summary is computed and returned
Respond ==
    /\ batch.state = "running"
    /\ batch.pending = {}
    /\ batch' = [batch EXCEPT
           !.state = "returned",
           !.response = BatchResponse([i \in 1..Len(batch.ops) |->
                                          batch.results[i][1]])]
    /\ UNCHANGED <<cacheVars, resolverVars, limiterVars>>

NextBatch ==
    \/ \E k \in 1..Len(BatchInputs) : HandleBatch(k)
    \/ \E i \in 1..(MAX_BATCH_SIZE + 1) : Settle(i)
    \/ Respond

SpecBatch == InitIdle /\ [][NextBatch]_vars

(***************************************************************************)
(* Properties of FileCache                                                 *)
(***************************************************************************)
\* The request and the record of the get that has just returned
GotCall == last.call
GotKey == CallKey(last.call)

\* C1: on an enabled cache, a get issued while now - timestamp <= ttl of the
\* latest set of the same (endpoint, params, tenant) returns exactly the data
\* of that set, whatever was set under other endpoints, params or tenants in
\* between, as long as no invalidate or sweep deleted the record.
C1_RoundTrip ==
    ( /\ last.op = "get"
      /\ CallId(GotCall) \in DOMAIN latest
      /\ now - latest[CallId(GotCall)].timestamp <= latest[CallId(GotCall)].ttl * 1000 )
    => last.ret = Hit(latest[CallId(GotCall)].data)

\* A get at age = ttl exactly returns the body written under the other params
\* order, with the records of three other requests in the store
C1_Witness ==
    /\ last.op = "get"
    /\ last.call = 2
    /\ last.ret = Hit(D_big)
    /\ now = 1000
    /\ latest[1].timestamp = 0
    /\ Cardinality(DOMAIN store) >= 3

\* C2: a get that reads a record with now - timestamp > ttl returns a miss and
\* deletes the record; a record with now - timestamp <= ttl is returned and
\* kept; the get repeated on the key just expired finds no file, returns a
\* miss again, raises nothing and unlinks nothing.
C2_ExpiredGet ==
    last.op = "get" =>
        /\ (last.read # None /\ last.read[1] # Corrupt) =>
              LET rec == last.read[1]
              IN IF now - rec.timestamp > rec.ttl * 1000
                 THEN /\ last.ret = Miss
                      /\ GotKey \notin DOMAIN store
                      /\ last.unlinks = 1
                 ELSE /\ last.ret = Hit(rec.data)
                      /\ GotKey \in DOMAIN store
                      /\ store[GotKey] = rec
                      /\ last.unlinks = 0
        /\ last.again =>
              /\ last.found = "absent"
              /\ last.ret = Miss
              /\ ~last.threw
              /\ last.unlinks = 0

\* The second get of a key whose record the first get found expired
C2_Witness ==
    /\ last.op = "get"
    /\ last.again
    /\ last.ret = Miss
    /\ now = 1001

\* C7: after a completed sweep no stored record is expired, there are at most
\* MAX_CACHE_ENTRIES records and they weigh at most MAX_CACHE_SIZE together.
C7_SweepBounds ==
    (last.op = "cleanup" /\ last.completed) =>
        /\ \A k \in DOMAIN store :
              now - store[k].timestamp <= store[k].ttl * 1000
        /\ Cardinality(DOMAIN store) <= MAX_CACHE_ENTRIES
        /\ SumSizes(store, DOMAIN store) <= MAX_CACHE_SIZE

\* A sweep that had to delete two records to get under the byte ceiling
C7_Witness ==
    /\ last.op = "cleanup"
    /\ last.completed
    /\ last.sizeOver
    /\ Cardinality(last.evicted) >= 2
    /\ store # EmptyStore

\* C8: a sweep evicts for a ceiling in ascending timestamp order: no evicted
\* record is newer than a surviving one, and when only the count ceiling was
\* exceeded exactly MAX_CACHE_ENTRIES records survive (the most recent ones).
C8_OldestFirst ==
    (last.op = "cleanup" /\ last.completed) =>
        /\ \A e \in last.evicted : \A k \in DOMAIN store :
              e.timestamp <= store[k].timestamp
        /\ (last.countOver /\ ~last.sizeOver) =>
              Cardinality(DOMAIN store) = MAX_CACHE_ENTRIES

\* Only the count ceiling was exceeded; the evicted record is strictly older
\* than one survivor and as old as another
C8_Witness ==
    /\ last.op = "cleanup"
    /\ last.countOver
    /\ ~last.sizeOver
    /\ \E e \in last.evicted :
          /\ \E k \in DOMAIN store : e.timestamp < store[k].timestamp
          /\ \E k \in DOMAIN store : e.timestamp = store[k].timestamp

\* C6: no cache I/O error reaches the caller of a FileCache operation,
\* constructing the cache included.
C6_NoErrorPropagates == ~last.threw

(***************************************************************************)
(* Properties of the resolver                                              *)
(***************************************************************************)
\* The call of resolve that was made last
Asked == ResolveCalls[last.call]
AskedDigits ==
    /\ Len(Asked.query) > 0
    /\ \A i \in 1..Len(Asked.query) : Asked.query[i] \in Digits

\* C4: a resolve with an orgId and a non-numeric query of a given or detected
\* type, made while the resolve cache holds a live entry for (tenant, type,
\* lower-cased query), returns exactly the cached result and dispatches no
\* API call; and a resolution of such a call that yielded a single result
\* leaves that very result in the cache, so that the same call made again
\* returns it without a further API call.
C4_CacheHit ==
    ( /\ last.op = "resolve"
      /\ Asked.options.orgId # None
      /\ ~AskedDigits
      /\ Asked.options.type # None \/ detectResourceType(Asked.query) # None )
    => /\ last.held # None
          => /\ ~last.threw
             /\ last.results = <<last.held[1]>>
             /\ last.api = << >>
       /\ Len(last.matches) = 1
          => /\ last.results = last.matches
             /\ Held(Asked) = Some(last.results[1])

\* A query typed in another case finds the entry of the earlier resolution
C4_Witness ==
    /\ last.op = "resolve"
    /\ last.call = 7
    /\ last.held # None
    /\ last.results = <<last.held[1]>>
    /\ last.results[1].query = <<"A","c","m","e">>
    /\ last.api = << >>

\* C5: resolve writes to the resolve cache only after a resolution that
\* yielded exactly one result, and then once, under (tenant, type, lower-cased
\* query), with 24h when the result is exact and 1h otherwise; with more than
\* one match nothing is written, also when `first` cuts the returned list to
\* one, and with zero matches nothing is written.
C5_CacheWrite ==
    last.op = "resolve"
    => last.cacheSets =
           IF Asked.options.orgId # None /\ Len(last.matches) = 1
           THEN << [key |-> <<"resolve", Asked.options.orgId[1],
                              last.matches[1].type,
                              toLowerCase(Asked.query)>>,
                    value |-> last.matches[1],
                    ttl |-> IF last.matches[1].exact
                            THEN 24 * 60 * 60 * 1000
                            ELSE 60 * 60 * 1000] >>
           ELSE << >>

\* Two companies matched, `first` returned one of them, nothing was cached
C5_Witness ==
    /\ last.op = "resolve"
    /\ last.call = 6
    /\ Len(last.matches) = 2
    /\ Len(last.results) = 1
    /\ last.cacheSets = << >>
    /\ <<"resolve", "org-1", "company", <<"a","c","m","e">>>> \notin DOMAIN rcache

\* C10: resolve of a query made only of digits returns exactly one result
\* with id = query, label = query and exact = true, whatever type is
\* configured and whatever the cache holds, without an API call and without
\* reading or writing the resolve cache.
C10_NumericPassThrough ==
    (last.op = "resolve" /\ AskedDigits)
    => /\ ~last.threw
       /\ Len(last.results) = 1
       /\ last.results[1].id = Asked.query
       /\ last.results[1].label = Asked.query
       /\ last.results[1].exact
       /\ last.api = << >>
       /\ last.cacheGets = << >>
       /\ last.cacheSets = << >>

\* A numeric person id resolved for a tenant whose cache is not empty
C10_Witness ==
    /\ last.op = "resolve"
    /\ last.call = 2
    /\ last.results[1].id = <<"4","2">>
    /\ last.results[1].type = "person"
    /\ \E k \in DOMAIN rcache : k[2] = "org-1"

(***************************************************************************)
(* Properties of the rate limiter                                          *)
(***************************************************************************)
\* The admissions in the trailing window that ends at instant t
AdmittedIn(t) ==
    { n \in 1..Len(lim.admitted) :
          lim.admitted[n] <= t /\ t - lim.admitted[n] < windowMs }

\* C3: however the acquire tasks of a class interleave, no trailing windowMs
\* interval ending at any instant holds more than `limit` admissions: a task
\* that waited re-checks the window when it wakes.
C3_WindowNeverExceeded ==
    \A t \in 0..MaxTime : Cardinality(AdmittedIn(t)) <= limit

\* A task woke when its computed delay was over, found the window filled
\* again by another task, waited a second time and was admitted then
C3_Witness ==
    \E t \in Tasks :
        /\ tasks[t].waits = 2
        /\ tasks[t].pc = "admitted"
        /\ Cardinality(AdmittedIn(now)) = limit

\* The admissions the first n tasks were given
RECURSIVE AcquiredBy(_)
AcquiredBy(n) == IF n = 0 THEN 0 ELSE tasks[n].acquired + AcquiredBy(n - 1)

\* C9: executeWithRetry retries a call answered with 429 at most maxRetries
\* times and then ends with the rate-limited error, which carries the number
\* of attempts made; a call is reported as a success only on an answer that
\* is not 429, and every call that is sent was admitted by the limiter first.
C9_RetryCeiling ==
    /\ \A t \in Tasks :
           /\ tasks[t].attempt <= maxRetries
           /\ tasks[t].sent <= maxRetries + 1
           /\ tasks[t].sent <= tasks[t].acquired
           /\ tasks[t].pc = "failed"
              => /\ tasks[t].error.kind = "RateLimitExceeded"
                 /\ tasks[t].error.attempts = tasks[t].sent
                 /\ tasks[t].sent = maxRetries + 1
                 /\ tasks[t].answer.status = 429
           /\ tasks[t].pc = "done"
              => /\ tasks[t].answer.status = 200
                 /\ tasks[t].error = NoError
           /\ tasks[t].pc \in {"acquire", "waiting", "admitted", "backoff"}
              => tasks[t].error = NoError
    /\ Len(lim.admitted) = AcquiredBy(NumTasks)

\* One call was throttled to the end and failed, another succeeded on a retry
C9_Witness ==
    \E t, u \in Tasks :
        /\ tasks[t].pc = "failed"
        /\ tasks[t].error.attempts = maxRetries + 1
        /\ tasks[u].pc = "done"
        /\ tasks[u].sent = 2

\* C11: when the lookups of a resolve for a non-numeric query of a known type
\* come back with zero matches, resolve throws a ResolveError that carries
\* the query and the attempted type and returns nothing; and resolve never
\* returns an empty list.
C11_NotFound ==
    last.op = "resolve"
    => /\ ~last.threw => Len(last.results) >= 1
       /\ (last.api # << >> /\ last.matches = << >>)
          => /\ last.threw
             /\ last.results = << >>
             /\ last.error = << [name |-> "ResolveError",
                                 query |-> Asked.query,
                                 type |-> resourceTypeOf(Asked.query,
                                                         Asked.options)] >>
             /\ resourceTypeOf(Asked.query, Asked.options) # None

\* The company search for "Acme" came back empty
C11_Witness ==
    /\ last.op = "resolve"
    /\ last.call = 5
    /\ Len(last.api) = 1
    /\ last.answered = << >>
    /\ last.threw
    /\ last.error[1].type = <<"company">>

\* The ids of what the server sent for the lookup of the last resolve
ServedIds ==
    LET served == IF last.api[1].filter # << >> /\ last.api[1].filter[1][1] = "query"
                  THEN last.answered
                  ELSE Response(last.api[1])
    IN [n \in 1..Len(served) |-> served[n].id]

\* C12: a resolution with more than one match never throws: without `first`
\* resolve returns all the matches, in the order the API sent them, and with
\* `first` it returns exactly the first of them.
C12_Ambiguity ==
    (last.op = "resolve" /\ Len(last.matches) > 1)
    => /\ ~last.threw
       /\ last.results = IF Asked.options.first
                         THEN <<last.matches[1]>>
                         ELSE last.matches
       /\ \A a, b \in 1..Len(last.matches) :
              a < b => \E i, j \in 1..Len(ServedIds) :
                           /\ i < j
                           /\ ServedIds[i] = last.matches[a].id
                           /\ ServedIds[j] = last.matches[b].id

\* The server sent company 22 before company 21 and `first` returned 22
C12_Witness ==
    /\ last.op = "resolve"
    /\ last.call = 6
    /\ Len(last.matches) = 2
    /\ last.matches[1].id = <<"2","2">>
    /\ last.results = <<last.matches[1]>>
    /\ ~last.threw

\* C13: a result that resolve returns with exact = true comes from a numeric
\* pass-through, an email lookup, a project or deal number lookup, a cached
\* earlier resolution, or a name search with a single hit whose label equals
\* the query ignoring case; a name search with several hits marks none exact.
C13_ExactMeansUnique ==
    (last.op = "resolve" /\ ~last.threw)
    => \A n \in 1..Len(last.results) :
           last.results[n].exact
           => \/ AskedDigits
              \/ last.held # None
              \/ /\ Len(last.api) >= 1
                 /\ last.api[1].filter # << >>
                 /\ last.api[1].filter[1][1] \in
                        {"email", "project_number", "deal_number"}
              \/ /\ Len(last.matches) = 1
                 /\ toLowerCase(last.results[n].label)
                        = toLowerCase(Asked.query)

(***************************************************************************)
(* Properties of resolveFilterValue and resolveFilterIds                   *)
(***************************************************************************)
AllDigits(q) == Len(q) > 0 /\ \A i \in 1..Len(q) : q[i] \in Digits

\* The value a sequence of <<key, value>> entries holds for a key
ValueAt(entries, key) ==
    entries[CHOOSE n \in 1..Len(entries) : entries[n][1] = key][2]
KeysOf(entries) == { entries[n][1] : n \in 1..Len(entries) }

\* What the resolve of a key of the finished resolveFilterIds did
TraceOf(key) ==
    filt.trace[CHOOSE n \in 1..Len(filt.trace) : filt.trace[n].key = key]

\* C14: a finished resolveFilterIds has not thrown and returns a resolved map
\* with exactly the keys of the filters; a key without type mapping or with a
\* numeric value keeps its value and has no metadata; a mapped key whose
\* resolve succeeded has the id of the first match and the metadata {input,
\* id, label, reusable = exact}; a mapped key whose resolve failed keeps its
\* value, has no metadata, and the keys after it are processed all the same.
C14_FilterIds ==
    (filt.call # 0 /\ filt.done)
    => LET call == FilterIdsCalls[filt.call]
       IN /\ Len(filt.resolved) = Len(call.filters)
          /\ KeysOf(filt.resolved) = KeysOf(call.filters)
          /\ \A n \in 1..Len(call.filters) :
               LET key == call.filters[n][1]
                   value == call.filters[n][2]
               IN IF key \notin DOMAIN call.typeMapping \/ AllDigits(value)
                  THEN /\ ValueAt(filt.resolved, key) = value
                       /\ key \notin KeysOf(filt.metadata)
                       /\ key \notin {filt.trace[m].key : m \in 1..Len(filt.trace)}
                  ELSE /\ \E m \in 1..Len(filt.trace) : filt.trace[m].key = key
                       /\ IF TraceOf(key).threw
                          THEN /\ ValueAt(filt.resolved, key) = value
                               /\ key \notin KeysOf(filt.metadata)
                          ELSE /\ ValueAt(filt.resolved, key)
                                      = TraceOf(key).results[1].id
                               /\ key \in KeysOf(filt.metadata)
                               /\ ValueAt(filt.metadata, key)
                                      = [input |-> value,
                                         id |-> TraceOf(key).results[1].id,
                                         label |-> TraceOf(key).results[1].label,
                                         reusable |-> TraceOf(key).results[1].exact]

\* The company was not found and kept its value; the person after it was
\* resolved
C14_Witness ==
    /\ filt.call = 2
    /\ filt.done
    /\ TraceOf("company_id").threw
    /\ ValueAt(filt.resolved, "company_id") = <<"A","c","m","e">>
    /\ ValueAt(filt.resolved, "person_id") = <<"5","0","0","5","2","1">>
    /\ KeysOf(filt.metadata) = {"person_id"}

\* The value and type resolveFilterValue was last called with
AskedValue == FilterValueCalls[last.call][1]
AskedType == FilterValueCalls[last.call][2]

\* C19: resolveFilterValue returns a digits-only value unchanged, with no API
\* call and no cache access; for any other value it returns the id of the
\* sole or first match of resolving the value as the given type, and throws
\* a ResolveError exactly when there is no match.
C19_FilterValue ==
    last.op = "resolveFilterValue"
    => IF AllDigits(AskedValue)
       THEN /\ ~last.threw
            /\ last.ret = <<AskedValue>>
            /\ last.api = << >>
            /\ last.cacheGets = << >>
            /\ last.cacheSets = << >>
       ELSE IF last.held # None
       THEN /\ ~last.threw
            /\ last.ret = <<last.held[1].id>>
       ELSE /\ last.api # << >>
            /\ last.threw <=> last.matches = << >>
            /\ last.threw
               => /\ last.ret = None
                  /\ last.error = << [name |-> "ResolveError",
                                      query |-> AskedValue,
                                      type |-> <<AskedType>>] >>
            /\ ~last.threw
               => /\ last.ret = <<last.matches[1].id>>
                  /\ last.matches[1].type = AskedType

\* Two services matched "dev" in project 11: the id of the first is returned
C19_Witness ==
    /\ last.op = "resolveFilterValue"
    /\ last.call = 4
    /\ Len(last.matches) = 2
    /\ last.ret = << <<"4","1">> >>

(***************************************************************************)
(* Properties of handleBatch                                               *)
(***************************************************************************)
\* The operations array of the call under way or last returned
Submitted == BatchInputs[batch.input].items

\* An element with a non-blank resource and a non-blank action
NonBlank(field) ==
    field # None /\ \E j \in 1..Len(field[1]) : field[1][j] # " "
ValidItem(item) ==
    item.object /\ NonBlank(item.resource) /\ NonBlank(item.action)
AllValid(operations) ==
    /\ operations.array
    /\ Len(operations.items) \in 1..MAX_BATCH_SIZE
    /\ \A i \in 1..Len(operations.items) : ValidItem(operations.items[i])

\* C15: a failing operation neither cancels nor alters the others: once a
\* batch of validated operations has returned, the response is not an error
\* response, every operation was executed exactly once, there is one result
\* per operation at its own index, an operation whose execution returned
\* data holds the data of its own execution whatever the others did, a
\* failing one holds its own error, and the summary counts them
C15_FailureIsolated ==
    (batch.state = "returned" /\ AllValid(BatchInputs[batch.input])) =>
        /\ batch.response.isError = FALSE
        /\ Len(batch.response.results) = Len(Submitted)
        /\ batch.response.batch.total = Len(Submitted)
        /\ batch.response.batch.succeeded + batch.response.batch.failed
               = Len(Submitted)
        /\ batch.response.batch.failed
               >= Cardinality({i \in 1..Len(Submitted) :
                      Submitted[i].runs = "throws"})
        /\ \A i \in 1..Len(Submitted) :
              LET r == batch.response.results[i]
              IN /\ batch.executed[i] = 1
                 /\ r.index = i - 1
                 /\ r.resource = Submitted[i].resource[1]
                 /\ r.action = Submitted[i].action[1]
                 /\ Submitted[i].runs = "data" =>
                        /\ r.data = Some([kind |-> "json", from |-> Submitted[i].id])
                        /\ r.error = None
                 /\ Submitted[i].runs = "throws" =>
                        /\ r.data = None
                        /\ r.error = Some([kind |-> "message", from |-> Submitted[i].id])

\* C15 witness: a batch of the maximum size in which one operation threw
\* has returned with nine successes and one failure
C15_Witness ==
    /\ batch.state = "returned"
    /\ Len(Submitted) = MAX_BATCH_SIZE
    /\ \E i \in 1..Len(Submitted) : Submitted[i].runs = "throws"
    /\ batch.response.isError = FALSE
    /\ batch.response.batch.failed = 1
    /\ batch.response.batch.succeeded = MAX_BATCH_SIZE - 1

\* C16: at no time are more than MAX_BATCH_SIZE operations executing; an
\* array of more than MAX_BATCH_SIZE operations is answered with an input
\* error and none of them is executed; of 1 to MAX_BATCH_SIZE valid
\* operations each has been handed to execute exactly once, from the moment
\* they run to the return
C16_AtMostTenAtOnce ==
    batch.state # "idle" =>
        /\ Cardinality(batch.pending) <= MAX_BATCH_SIZE
        /\ Len(Submitted) > MAX_BATCH_SIZE =>
              /\ batch.state = "returned"
              /\ batch.response.isError
              /\ batch.response.error.name = "UserInputError"
              /\ batch.executed = << >>
              /\ batch.pending = {}
        /\ AllValid(BatchInputs[batch.input]) =>
              /\ DOMAIN batch.executed = 1..Len(Submitted)
              /\ \A i \in 1..Len(Submitted) : batch.executed[i] = 1

\* C16 witness: MAX_BATCH_SIZE operations are executing at once
C16_Witness ==
    /\ batch.state = "running"
    /\ Cardinality(batch.pending) = MAX_BATCH_SIZE
    /\ \A i \in batch.pending : batch.executed[i] = 1

(***************************************************************************)
(* Properties of FileCache.invalidate and clear                            *)
(***************************************************************************)
\* p occurs in s as a substring
Contains(s, p) ==
    \E i \in 1..(Len(s) - Len(p) + 1) :
        \A j \in 1..Len(p) : s[i + j - 1] = p[j]

\* C17: a step of invalidate(pattern) with a non-empty pattern, on an enabled
\* cache, removes every valid entry whose stored endpoint contains the pattern
\* as a substring, whatever its tenant, and leaves every other valid entry in
\* place with the record it had (data, timestamp and ttl, so that a get
\* returns what it returned before); a step of invalidate() or of clear()
\* leaves no entry; neither creates an entry.
C17_Invalidate ==
    [][ (last'.op \in {"invalidate", "clear"} /\ Enabled) =>
          /\ last'.op = "clear" => last'.pattern = None
          /\ DOMAIN store' \subseteq DOMAIN store
          /\ last'.pattern = None => DOMAIN store' = {}
          /\ last'.pattern # None =>
                \A k \in DOMAIN store :
                    store[k] # Corrupt =>
                        IF Contains(store[k].endpoint, last'.pattern[1])
                        THEN k \notin DOMAIN store'
                        ELSE /\ k \in DOMAIN store'
                             /\ store'[k] = store[k]
                             /\ \A c \in 1..Len(Requests) :
                                   (CallKey(c) = k /\ CallId(c) \in DOMAIN latest)
                                       => /\ CallId(c) \in DOMAIN latest'
                                          /\ latest'[CallId(c)] = latest[CallId(c)]
      ]_vars

\* C17 witness: invalidate("projects") has removed the /projects entries of
\* two tenants and the /tasks entry is still stored
C17_Witness ==
    /\ last.op = "invalidate"
    /\ last.pattern = Some(S_projects_word)
    /\ \E k1, k2 \in last.gone : k1[2] = "org-1" /\ k2[2] = "org-2"
    /\ \E k \in DOMAIN store : store[k] # Corrupt /\ store[k].endpoint = S_tasks
    /\ \A k \in DOMAIN store : ~Contains(k[1], S_projects_word)

(***************************************************************************)
(* Properties of detectResourceType and isNumericId                        *)
(***************************************************************************)
\* One or more characters, all of them decimal digits
DigitsOnly(s) == s # << >> /\ {s[i] : i \in 1..Len(s)} \subseteq Digits

\* local@domain with exactly one "@", no white space, a non-empty local part
\* and a dot inside the domain that is neither its first nor its last
\* character
EmailShaped(s) ==
    /\ Cardinality({i \in 1..Len(s) : s[i] = "@"}) = 1
    /\ \A i \in 1..Len(s) : s[i] \notin {" ", "\t", "\n"}
    /\ LET at == CHOOSE i \in 1..Len(s) : s[i] = "@"
           domain == SubSeq(s, at + 1, Len(s))
       IN /\ at > 1
          /\ \E i \in 2..(Len(domain) - 1) : domain[i] = "."

\* <word>-<digits> with the word in any letter case
Numbered(s, word) ==
    /\ Len(s) > Len(word) + 1
    /\ toUpperCase(SubSeq(s, 1, Len(word))) = word
    /\ s[Len(word) + 1] = "-"
    /\ DigitsOnly(SubSeq(s, Len(word) + 2, Len(s)))

\* C18: detectResourceType returns null for a digits-only string, a person
\* detected by the email pattern for an email-shaped string, a project for
\* PRJ-<digits> and P-<digits> in any letter case, a deal for D-<digits> and
\* DEAL-<digits> in any letter case, and null for every other string;
\* isNumericId is true exactly for the non-empty digits-only strings.
C18_Detection ==
    /\ last.op = "detectResourceType" =>
          LET q == last.query
          IN last.ret =
                IF DigitsOnly(q) THEN None
                ELSE IF EmailShaped(q)
                THEN Some([type |-> "person", confidence |-> "high",
                           pattern |-> "email"])
                ELSE IF Numbered(q, <<"P","R","J">>) \/ Numbered(q, <<"P">>)
                THEN Some([type |-> "project", confidence |-> "high",
                           pattern |-> "project_number"])
                ELSE IF Numbered(q, <<"D">>) \/ Numbered(q, <<"D","E","A","L">>)
                THEN Some([type |-> "deal", confidence |-> "high",
                           pattern |-> "deal_number"])
                ELSE None
    /\ last.op = "isNumericId" => (last.ret <=> DigitsOnly(last.query))

\* C18 witness: a project number written in mixed case was detected
C18_Witness ==
    /\ last.op = "detectResourceType"
    /\ last.query = <<"p","R","J","-","0","0","7">>
    /\ last.ret # None
    /\ last.ret[1].type = "project"

(***************************************************************************)
(* Properties of FileCache.getTTL                                          *)
(***************************************************************************)
\* The endpoint-prefix table, in seconds
PrefixTable ==
    { <<<<"/","p","r","o","j","e","c","t","s">>, 3600>>, <<<<"/","p","e","o","p","l","e">>, 3600>>, <<<<"/","s","e","r","v","i","c","e","s">>, 3600>>,
      <<<<"/","t","a","s","k","s">>, 900>>, <<<<"/","b","u","d","g","e","t","s">>, 900>>, <<<<"/","t","i","m","e","_","e","n","t","r","i","e","s">>, 300>> }

\* The rows whose prefix the endpoint starts with
RowsFor(endpoint) ==
    { row \in PrefixTable :
        /\ Len(row[1]) <= Len(endpoint)
        /\ \A i \in 1..Len(row[1]) : endpoint[i] = row[1][i] }

\* C20: without a ttl override the entry gets the TTL of the longest prefix
\* of the table that its endpoint starts with, and 300 seconds when it starts
\* with none; with an override it gets the override, whatever the table says.
C20_DefaultTTL ==
    last.op = "getTTL" =>
        IF last.customTTL # None THEN last.ret = last.customTTL[1]
        ELSE IF RowsFor(last.endpoint) = {} THEN last.ret = 300
        ELSE \E row \in RowsFor(last.endpoint) :
                /\ \A other \in RowsFor(last.endpoint) :
                      Len(other[1]) <= Len(row[1])
                /\ last.ret = row[2]

\* C20 witness: an endpoint under /tasks got 900 seconds without an override
C20_Witness ==
    /\ last.op = "getTTL"
    /\ last.endpoint = <<"/","t","a","s","k","s","/","1","/","t","a","s","k","s">>
    /\ last.customTTL = None
    /\ last.ret = 900

\* The operations array has an element that is not an object or lacks a
\* non-blank resource or action
InvalidAt(operations) ==
    { i \in 1..Len(operations.items) : ~ValidItem(operations.items[i]) }
Rejectable(operations) ==
    ~operations.array \/ operations.items = << >> \/ InvalidAt(operations) # {}

\* The zero-based indices an input error response names
NamedIn(response) ==
    { response.text[j].index[1] :
        j \in { n \in 1..Len(response.text) : response.text[n].index # None } }

\* C27: every operation whose execute call returned a result flagged isError
\* is reported with an error and no data and is counted in failed, not in
\* succeeded, whatever the content of the result (a JSON text, another text,
\* or a content that is no text)
C27_FlaggedIsFailed ==
    (batch.state = "returned" /\ ~batch.response.isError) =>
        LET flagged == { i \in 1..Len(Submitted) :
                           Submitted[i].runs \in {"errorResult", "errorText",
                                                  "errorImage"} }
        IN /\ \A i \in flagged :
                 /\ batch.response.results[i].error # None
                 /\ batch.response.results[i].data = None
           /\ batch.response.batch.failed >= Cardinality(flagged)
           /\ batch.response.batch.succeeded
                 <= Len(Submitted) - Cardinality(flagged)

\* C28 as stated: whenever operations is no array, is empty or has an invalid
\* element, nothing is executed and the input error returned names the index
\* of every invalid element
C28_AsStated ==
    (batch.state # "idle" /\ Rejectable(BatchInputs[batch.input])) =>
        /\ batch.state = "returned"
        /\ batch.executed = << >>
        /\ batch.response.isError
        /\ batch.response.error.name = "UserInputError"
        /\ { i - 1 : i \in InvalidAt(BatchInputs[batch.input]) }
               \subseteq NamedIn(batch.response)

\* C28: whenever operations is no array, is empty or has an invalid element,
\* nothing is executed and an input error is returned; when the array has at
\* most MAX_BATCH_SIZE elements that error names the index of every invalid
\* element and of no valid one (a longer array is answered with the error
\* about its size, which names no index)
C28_ValidatedFirst ==
    (batch.state # "idle" /\ Rejectable(BatchInputs[batch.input])) =>
        /\ batch.state = "returned"
        /\ batch.executed = << >>
        /\ batch.response.isError
        /\ batch.response.error.name = "UserInputError"
        /\ NamedIn(batch.response) =
              IF Len(Submitted) <= MAX_BATCH_SIZE
              THEN { i - 1 : i \in InvalidAt(BatchInputs[batch.input]) }
              ELSE {}

\* C28 witness: an array whose second and fourth elements are invalid was
\* answered with an error naming the indices 1 and 3, and nothing ran
C28_Witness ==
    /\ batch.state = "returned"
    /\ InvalidAt(BatchInputs[batch.input]) = {2, 4}
    /\ batch.response.isError
    /\ NamedIn(batch.response) = {1, 3}
    /\ batch.executed = << >>

\* C29: for every batch that passed validation the response has total equal
\* to the number of operations, results[i] has index i and the resource and
\* action of operations[i] in whatever order the executions completed, every
\* result carries exactly one of data and error, and succeeded + failed =
\* total
C29_Summary ==
    (batch.state = "returned" /\ ~batch.response.isError) =>
        /\ Len(Submitted) \in 1..MAX_BATCH_SIZE
        /\ batch.response.batch.total = Len(Submitted)
        /\ Len(batch.response.results) = Len(Submitted)
        /\ \A i \in 1..Len(Submitted) :
              LET r == batch.response.results[i]
              IN /\ r.index = i - 1
                 /\ r.resource = Submitted[i].resource[1]
                 /\ r.action = Submitted[i].action[1]
                 /\ (r.data = None) # (r.error = None)
        /\ batch.response.batch.succeeded + batch.response.batch.failed
              = batch.response.batch.total

\* C29 witness: a batch of operations on three different resources, the
\* second of which failed, has returned
C29_Witness ==
    /\ batch.state = "returned"
    /\ ~batch.response.isError
    /\ batch.response.batch = [total |-> 3, succeeded |-> 2, failed |-> 1]
    /\ Cardinality({ batch.response.results[i].resource : i \in 1..3 }) = 3
    /\ batch.response.results[2].error # None


(***************************************************************************)
(* Properties of executeWithRetry: Retry-After                             *)
(***************************************************************************)
\* C21: when a call is answered with 429 and a Retry-After value, the retry
\* is due exactly that delay after the response, not after the exponential
\* delay; the due time does not move while the call backs off, and the call
\* goes back to the limiter, and so is sent again, no earlier than that.
C21_RetryAfterHonoured ==
    [][ \A t \in Tasks :
          /\ ( /\ tasks[t].pc = "admitted"
               /\ tasks'[t].pc = "backoff"
               /\ tasks'[t].answer.retryAfterMs # None )
             => tasks'[t].wakeAt = now + tasks'[t].answer.retryAfterMs[1]
          /\ (tasks[t].pc = "backoff" /\ tasks'[t].pc = "backoff")
             => tasks'[t] = tasks[t]
          /\ (tasks[t].pc = "backoff" /\ tasks'[t].pc # "backoff")
             => /\ now >= tasks[t].wakeAt
                /\ tasks'[t].pc = "acquire"
                /\ tasks'[t].sent = tasks[t].sent
          /\ tasks'[t].sent > tasks[t].sent => tasks[t].pc = "admitted"
      ]_vars

\* C21 witness: a first attempt was answered with 429 and Retry-After 2,
\* where the exponential delay is 1, and the call is back at the limiter two
\* time units after the response
C21_Witness ==
    \E t \in Tasks :
        /\ tasks[t].pc = "acquire"
        /\ tasks[t].attempt = 1
        /\ tasks[t].sent = 1
        /\ tasks[t].answer = [status |-> 429, retryAfterMs |-> Some(2)]
        /\ baseDelayMs * Pow2(0) + (baseDelayMs - 1) < 2
        /\ now = tasks[t].wakeAt
        /\ now >= 2

(***************************************************************************)
(* Properties of a disabled cache and of the singleton                     *)
(***************************************************************************)
\* The singleton holds a disabled cache
Disabled == cacheInstance # NoInstance /\ ~cacheInstance.enabled

\* What the claim says of every step, but for the question of which calls
\* may replace the instance
DisabledAndShared ==
    /\ (Disabled /\ last'.op = "get")
       => /\ last'.ret = Miss
          /\ ~last'.threw
          /\ store' = store
    /\ (Disabled /\ last'.op \in {"set", "invalidate", "clear"})
       => /\ store' = store
          /\ pendingSweeps' = pendingSweeps
          /\ ~last'.threw
    /\ last'.op = "disableCache"
       => cacheInstance' # NoInstance /\ ~cacheInstance'.enabled
    /\ (last'.op = "getCache" /\ cacheInstance # NoInstance)
       => /\ last'.ret = cacheInstance
          /\ cacheInstance' = cacheInstance
    /\ (last'.op = "getCache" /\ cacheInstance = NoInstance /\ ~last'.threw)
       => /\ last'.ret # NoInstance
          /\ cacheInstance' = last'.ret

\* C22 as stated: on a disabled cache every get is a miss and set, get and
\* invalidate store and delete nothing; getCache, whatever its argument,
\* returns the instance that exists, the disabled one after disableCache; and
\* the instance getCache returns is replaced by resetCache only, so that all
\* getCache calls between two resetCache calls return one instance
C22_AsStated ==
    [][ /\ DisabledAndShared
        /\ (cacheInstance # NoInstance /\ cacheInstance' # cacheInstance)
           => last'.op = "resetCache"
      ]_vars

\* C22: as above, where the instance getCache returns is replaced by
\* resetCache and by disableCache only: all getCache calls between two calls
\* of resetCache or disableCache return one instance
C22_DisabledAndShared ==
    [][ /\ DisabledAndShared
        /\ (cacheInstance # NoInstance /\ cacheInstance' # cacheInstance)
           => last'.op \in {"resetCache", "disableCache"}
      ]_vars

\* C22 witness: the entry an enabled cache wrote is on disk and unexpired,
\* and a get on its key through the disabled cache that replaced it missed
C22_Witness ==
    /\ Disabled
    /\ cacheInstance.id = 2
    /\ last.op = "get"
    /\ last.ret = Miss
    /\ CallKey(last.call) \in DOMAIN store
    /\ store[CallKey(last.call)] # Corrupt
    /\ ~IsExpired(store[CallKey(last.call)], now)

(***************************************************************************)
(* Properties of the sweep that follows a write                            *)
(***************************************************************************)
\* C25: a step of set that wrote its entry leaves exactly one more sweep
\* scheduled and deletes nothing itself, so that the sweep runs after set has
\* returned; a set on a disabled cache and a set whose write failed schedule
\* none; every sweep that runs is one that a write scheduled, and nothing
\* else schedules or runs a sweep.
C25_OneSweepPerWrite ==
    [][ /\ last'.op = "set" =>
            LET key == CallKey(last'.call)
                written == /\ key \in DOMAIN store'
                           /\ store'[key] # Corrupt
                           /\ store'[key].timestamp = now
            IN /\ last'.wrote => (written /\ ~Disabled)
               /\ pendingSweeps' =
                      IF last'.wrote THEN pendingSweeps + 1 ELSE pendingSweeps
               /\ Disabled => (~last'.wrote /\ store' = store)
               /\ ~last'.wrote =>
                      \/ store' = store
                      \/ (key \in DOMAIN store' /\ store'[key] = Corrupt)
               /\ \A k \in DOMAIN store \ {key} :
                      k \in DOMAIN store' /\ store'[k] = store[k]
               /\ ~last'.threw
        /\ last'.op = "cleanup" =>
               (pendingSweeps > 0 /\ pendingSweeps' = pendingSweeps - 1)
        /\ pendingSweeps' # pendingSweeps => last'.op \in {"set", "cleanup"}
      ]_vars

\* C25 witness: set has written and returned with its sweep scheduled while
\* an expired entry, which that sweep will delete, is still stored
C25_Witness ==
    /\ last.op = "set"
    /\ last.wrote
    /\ pendingSweeps = 1
    /\ \E k \in DOMAIN store \ {CallKey(last.call)} :
           store[k] # Corrupt /\ now - store[k].timestamp > store[k].ttl * 1000

(***************************************************************************)
(* Properties of records that cannot be parsed                             *)
(***************************************************************************)
\* The keys whose stored record cannot be parsed
Unparseable(f) == { k \in DOMAIN f : f[k] = Corrupt }

\* C26: a get on the key of a record that cannot be parsed returns a miss
\* and raises nothing; a sweep, and an invalidate with a pattern on an
\* enabled cache, delete every such record among the files they read.
C26_UnparseableIsAbsent ==
    [][ /\ ( /\ last'.op = "get"
             /\ CallKey(last'.call) \in Unparseable(store) )
           => (last'.ret = Miss /\ ~last'.threw)
        /\ last'.op = "cleanup"
           => /\ Unparseable(store) \cap last'.reached
                    \subseteq DOMAIN store \ DOMAIN store'
              /\ ~last'.threw
        /\ (last'.op = "invalidate" /\ last'.pattern # None)
           => /\ Unparseable(store) \cap last'.reached
                    \subseteq DOMAIN store \ DOMAIN store'
              /\ ~last'.threw
      ]_vars

\* C26 witness: invalidate("projects") has read and deleted the unparseable
\* record of a /tasks request, whose endpoint does not contain the pattern
C26_Witness ==
    /\ last.op = "invalidate"
    /\ last.pattern = Some(S_projects_word)
    /\ \E k \in last.gone \cap last.reached : k[1] = S_tasks
    /\ Unparseable(store) = {}

(***************************************************************************)
(* Properties of reads                                                     *)
(***************************************************************************)
\* C30: a get that returns an entry leaves every stored record as it was,
\* data, timestamp and ttl, and a get made more than ttl seconds after the
\* last set of its request misses however often the entry was read since.
C30_ReadsDoNotRenew ==
    [][ last'.op = "get" =>
          /\ last'.ret # Miss =>
                /\ store' = store
                /\ latest' = latest
                /\ CallKey(last'.call) \in DOMAIN store
                /\ last'.ret = Hit(store[CallKey(last'.call)].data)
          /\ ( /\ CallId(last'.call) \in DOMAIN latest
               /\ now - latest[CallId(last'.call)].timestamp
                     > latest[CallId(last'.call)].ttl * 1000 )
             => last'.ret = Miss
      ]_vars

\* C30 witness: an entry set at 0 with a ttl of one second was returned by a
\* get at 1000 and still carries the timestamp 0
C30_Witness ==
    /\ last.op = "get"
    /\ last.ret = Hit(D_big)
    /\ now = 1000
    /\ store[CallKey(last.call)].timestamp = 0
    /\ store[CallKey(last.call)].ttl = 1

(***************************************************************************)
(* Properties of scoped service resolution                                 *)
(***************************************************************************)
\* C23: a resolve of a service name made with a projectId returns only
\* services of that project, also when the resolve cache of the tenant holds
\* the resolution of the same name made under another projectId.
C23_ServicesInScope ==
    ( /\ last.op = "resolve"
      /\ ~last.threw
      /\ ~AskedDigits
      /\ Asked.options.type = Some("service")
      /\ Asked.options.projectId # None )
    => \A n \in 1..Len(last.results) :
           \E s \in 1..Len(Services) :
               /\ Services[s].id = last.results[n].id
               /\ Services[s].project_id = Asked.options.projectId[1]

(***************************************************************************)
(* Properties of the lookups by number                                     *)
(***************************************************************************)
\* s with its letters in upper case and the prefix `from` rewritten to `to`
Rewritten(s, from, to) ==
    LET upper == [i \in 1..Len(s) |->
                     IF s[i] \in DOMAIN UpperOf THEN UpperOf[s[i]] ELSE s[i]]
    IN IF Len(upper) >= Len(from) /\ SubSeq(upper, 1, Len(from)) = from
       THEN to \o SubSeq(upper, Len(from) + 1, Len(upper))
       ELSE upper

\* The last resolve went to the server for a query of number shape: what it
\* must have asked, given the numbers the server knows
NumberLookupsAsClaimed(fn, attribute, known, normalized) ==
    LET exact(value) == [fn |-> fn, filter |-> << <<attribute, value>> >>,
                         perPage |-> 1]
        hits(value) == value \in known
    IN /\ Len(last.api) >= 1
       /\ last.api[1] = exact(normalized)
       /\ IF hits(normalized)
          THEN Len(last.api) = 1 /\ ~last.threw
          ELSE /\ Len(last.api) = 2
               /\ last.api[2] = exact(Asked.query)
               /\ last.threw <=> ~hits(Asked.query)
       /\ last.threw => last.error[1].query = Asked.query

\* C24: for a query of project-number shape resolve first looks up the
\* number upper-cased with P- rewritten to PRJ-, looks up the query as typed
\* only when the first lookup found nothing, and fails only when both found
\* nothing; a hit on the first lookup is followed by no second call.  A query
\* of deal-number shape is treated the same way, with DEAL- rewritten to D-.
C24_NumberLookups ==
    (last.op = "resolve" /\ last.held = None) =>
        /\ ( /\ Asked.options.type \in {None, Some("project")}
             /\ Numbered(Asked.query, <<"P","R","J">>)
                    \/ Numbered(Asked.query, <<"P">>) )
           => NumberLookupsAsClaimed("getProjects", "project_number",
                  { Projects[n].project_number : n \in 1..Len(Projects) },
                  Rewritten(Asked.query, <<"P","-">>, <<"P","R","J","-">>))
        /\ ( /\ Asked.options.type \in {None, Some("deal")}
             /\ Numbered(Asked.query, <<"D">>)
                    \/ Numbered(Asked.query, <<"D","E","A","L">>) )
           => NumberLookupsAsClaimed("getDeals", "deal_number",
                  { Deals[n].deal_number : n \in 1..Len(Deals) },
                  Rewritten(Asked.query, <<"D","E","A","L","-">>, <<"D","-">>))

\* C24 witness: the lookup of PRJ-2 found nothing and the lookup of P-2, the
\* query as typed, found project 12
C24_Witness ==
    /\ last.op = "resolve"
    /\ Asked.query = <<"P","-","2">>
    /\ Len(last.api) = 2
    /\ last.api[1].filter = << <<"project_number", <<"P","R","J","-","2">>>> >>
    /\ last.api[2].filter = << <<"project_number", <<"P","-","2">>>> >>
    /\ ~last.threw
    /\ last.results[1].id = <<"1","2">>

====
